---- MODULE Spec2Model ----
(***************************************************************************)
(* Model of the NFSe automation engine of AutoNacional:                    *)
(*   - ExecutionService (Backend/src/services/execution_service.py): the   *)
(*     queue of runs, the single worker thread and the per-run flow;       *)
(*   - abrir_dashboard_nfse (Backend/scripts/automation/playwright_nfse.py)*)
(*     the session builder, also called directly by routers/nfse.py;       *)
(*   - processar_notas / processar_tabela_* (Backend/scripts/automation/   *)
(*     processar_notas_competencia_sync.py): the table scanner;            *)
(*   - the helpers of the scanner, each under a specification of its own:  *)
(*     verificar_nota_valida, sanitizar_nome_pasta, baixar_arquivos_da_    *)
(*     linha and the extension detection of baixar_arquivo_direto_sync;    *)
(*   - get_execution_service, the lazy module-level singleton.             *)
(* Strings the code slices, strips or measures are sequences of            *)
(* one-character strings; timestamps are abstracted to "set / not set".    *)
(***************************************************************************)
EXTENDS Integers, Sequences, FiniteSets, TLC

\* ------------------------------------------------------------------ bounds
MaxCalls == 2       \* calls of adicionar_execucao (each may start one thread)
MaxDirect == 1      \* direct calls of the router endpoint abrir_dashboard
MaxCapturas == 4    \* the per-direction counter of captures saturates here
MaxNome == 3        \* length of the company names explored
MaxRequests == 3    \* request threads that call get_execution_service

\* ----------------------------------------------------------------- strings
Digitos == {"0", "1", "2", "3", "4", "5", "6", "7", "8", "9"}

RECURSIVE LStrip(_)
LStrip(s) == IF s # <<>> /\ Head(s) = " " THEN LStrip(Tail(s)) ELSE s

RECURSIVE RStrip(_)
RStrip(s) ==
    IF s # <<>> /\ s[Len(s)] = " " THEN RStrip(SubSeq(s, 1, Len(s) - 1)) ELSE s

\* str.strip()
Strip(s) == RStrip(LStrip(s))

\* str.isdigit(): false on the empty string
IsDigit(s) == s # <<>> /\ \A i \in 1..Len(s) : s[i] \in Digitos

CnpjValido == <<"0","0","0","0","0","0","0","0","0","0","0","0","1","1">>
CnpjCurto == <<"1","2","3">>
Comp112025 == <<"1","1","2","0","2","5">>
Comp11b2025 == <<"1","1","/","2","0","2","5">>
Comp12b2025 == <<"1","2","/","2","0","2","5">>
Comp10b2025 == <<"1","0","/","2","0","2","5">>

AltEmitida == <<"E","m","i","t","i","d","a">>
AltCancelada == <<"C","a","n","c","e","l","a","d","a">>
SrcOk == <<"o","k",".","p","n","g">>

\* PLAYWRIGHT_HEADLESS: os.getenv("PLAYWRIGHT_HEADLESS", "false") == "true"
PLAYWRIGHT_HEADLESS == FALSE

\* ------------------------------------------------------------ enumerations
StatusExecucao == {"pendente", "em_execucao", "concluido", "falhou", "cancelado"}
EtapaExecucao ==
    {"inicio", "autenticacao", "processamento_emitidas",
     "processamento_recebidas", "finalizacao"}
Terminal == {"concluido", "falhou"}

\* -------------------------------------------------------------- the portal
\* A row of a listing: the text of its 3rd cell (competencia; <<>> when the
\* cell cannot be read), whether its 6th cell holds a status image, and the
\* alt / src attributes of that image (<<>> when the attribute is missing).
Linha(comp, img, alt, src) ==
    [comp |-> comp, img |-> img, alt |-> alt, src |-> src, menu |-> TRUE]

\* a row whose actions menu does not open: its artifacts cannot be captured
LinhaSemMenu(comp, img, alt, src) == [Linha(comp, img, alt, src) EXCEPT !.menu = FALSE]

\* A listing: its pages in order and the state of the "next page" control
\* on the last page: "ausente", "desabilitado" (has the disabled attribute)
\* or "habilitado" (present without it: a click leaves the same rows).
Listagem(paginas, prox) == [paginas |-> paginas, prox |-> prox]

ListagemVazia == Listagem(<<>>, "ausente")

\* one page: a valid and a cancelled note of the target period
ListagemDuas ==
    Listagem(<< << Linha(Comp11b2025, TRUE, AltEmitida, SrcOk),
                   Linha(Comp11b2025, TRUE, AltCancelada, SrcOk) >> >>, "ausente")

\* two pages; the target period ends in the middle of the second
ListagemPaginada ==
    Listagem(<< << Linha(Comp11b2025, FALSE, <<>>, <<>>), Linha(Comp11b2025, TRUE, AltEmitida, SrcOk) >>,
                << Linha(Comp11b2025, TRUE, AltEmitida, SrcOk), Linha(Comp10b2025, FALSE, <<>>, <<>>) >> >>,
             "desabilitado")

\* a last page full of the target period whose "next" control is enabled
ListagemPresa ==
    Listagem(<< << Linha(Comp11b2025, TRUE, AltEmitida, SrcOk) >> >>, "habilitado")

\* two pages: the first holds newer notes only, the target period begins on
\* the second
ListagemTardia ==
    Listagem(<< << Linha(Comp12b2025, TRUE, AltEmitida, SrcOk), Linha(Comp12b2025, TRUE, AltEmitida, SrcOk) >>,
                << Linha(Comp11b2025, TRUE, AltEmitida, SrcOk), Linha(Comp10b2025, TRUE, AltEmitida, SrcOk) >> >>,
             "desabilitado")

\* What the portal holds for one account: index -> listings per direction.
Portais ==
    << [emitidas |-> ListagemDuas, recebidas |-> ListagemVazia],
       [emitidas |-> ListagemPaginada, recebidas |-> ListagemTardia],
       [emitidas |-> ListagemPresa, recebidas |-> ListagemDuas] >>

\* two pages: the first begins with a newer note and ends with notes of the
\* target period, which goes on in the second
ListagemMista ==
    Listagem(<< << Linha(Comp12b2025, TRUE, AltEmitida, SrcOk), Linha(Comp11b2025, TRUE, AltEmitida, SrcOk) >>,
                << Linha(Comp11b2025, TRUE, AltEmitida, SrcOk), Linha(Comp10b2025, TRUE, AltEmitida, SrcOk) >> >>,
             "desabilitado")

\* two pages: the target period ends in the middle of the first
ListagemPassada ==
    Listagem(<< << Linha(Comp11b2025, TRUE, AltEmitida, SrcOk), Linha(Comp10b2025, TRUE, AltEmitida, SrcOk) >>,
                << Linha(Comp10b2025, TRUE, AltEmitida, SrcOk) >> >>,
             "desabilitado")

\* one page: a row whose period cell cannot be read (comp = <<>>), a row of
\* the target period whose menu does not open, and a plain row of the period
ListagemIlegivel ==
    Listagem(<< << Linha(<<>>, FALSE, <<>>, <<>>),
                   LinhaSemMenu(Comp11b2025, TRUE, AltEmitida, SrcOk),
                   Linha(Comp11b2025, TRUE, AltEmitida, SrcOk) >> >>, "ausente")

\* two pages of the target period; the last row of the first cannot be read
ListagemUltimaIlegivel ==
    Listagem(<< << LinhaSemMenu(Comp11b2025, FALSE, <<>>, <<>>), Linha(<<>>, FALSE, <<>>, <<>>) >>,
                << Linha(Comp11b2025, TRUE, AltEmitida, SrcOk) >> >>,
             "desabilitado")

\* Accounts whose listings have mixed pages and rows that fail.
PortaisVarredura ==
    << [emitidas |-> ListagemMista, recebidas |-> ListagemIlegivel],
       [emitidas |-> ListagemPassada, recebidas |-> ListagemUltimaIlegivel] >>

\* --------------------------------------------------------------- requests
Pedido(e, c, comp, t, h) ==
    [empresa_id |-> e, cnpj |-> c, competencia |-> comp, tipo |-> t, headless |-> h]

\* The arguments of the calls of adicionar_execucao that are explored.
Pedidos ==
    { Pedido("e1", CnpjValido, Comp112025, "ambas", "True"),
      Pedido("e1", CnpjValido, Comp11b2025, "ambas", "False"),
      Pedido("e2", CnpjValido, Comp112025, "recebidas", "False"),
      Pedido("e2", CnpjValido, Comp112025, "todas", "True"),
      Pedido("e2", CnpjCurto, Comp112025, "emitidas", "None"),
      Pedido("", CnpjValido, Comp112025, "ambas", "False"),
      Pedido("e1", <<>>, Comp112025, "ambas", "False"),
      Pedido("e1", CnpjValido, <<>>, "ambas", "False") }

EmpresaIds == {"e1", "e2"}

Calls == 1..MaxCalls
Diretas == 1..MaxDirect

\* ------------------------------------------------------------------ state
VARIABLES
    fila_execucoes,     \* ExecutionService.fila_execucoes: ids of queued runs
    execucoes_ativas,   \* ExecutionService.execucoes_ativas: empresa_id -> run id (0: absent)
    thread_executora,   \* ExecutionService.thread_executora: last thread started (0: None)
    rodando,            \* ExecutionService.rodando
    lock,               \* ExecutionService.lock: 0 free, k held by call k, MaxCalls+t by thread t
    execs,              \* the ExecucaoInfo objects, in order of creation
    chamadas,           \* the calls of adicionar_execucao and where each stands
    threads,            \* the worker threads (thread k is the one call k started)
    abertos,            \* browser processes that are open (ids: see BrowserDe)
    diretas,            \* the direct calls of the router endpoint abrir_dashboard
    limpezas,           \* per run: the calls of _limpar_recursos made for it
    consultas,          \* the last answer of obter_status a polling caller received
    download,           \* one call of baixar_arquivo_direto_sync: response and extension
    nota,               \* one call of verificar_nota_valida: the status image and the answer
    pasta,              \* one company name passed through sanitizar_nome_pasta, twice
    captura,            \* one call of baixar_arquivos_da_linha and what it attempted
    portais,            \* what the NFSe portal holds: per account, the listing of each direction
    modulo              \* module execution_service: the global _execution_service and the request threads in get_execution_service

vars ==
    << fila_execucoes, execucoes_ativas, thread_executora, rodando, lock,
       execs, chamadas, threads, abertos, diretas, limpezas, consultas, download, nota, pasta, captura, portais, modulo >>

ChamadaLivre == [pc |-> "livre", exec |-> 0]

\* A worker thread: where it stands (pc), the run it processes (exec), the
\* exception being handled (exc), the locals of the flow and of the scanner,
\* and what was observed while the run was processed: the portal contents
\* of its account, the outcome of abrir_dashboard_nfse, the calls of
\* baixar_arquivos_da_linha per direction and how many of them met a
\* failure (falhas), the directions whose table scan
\* began, those in which processar_tabela_* caught an exception, and the
\* exception the navigation to a listing raised.
ThreadParada ==
    [pc |-> "nao_iniciada", exec |-> 0, exc |-> "nenhuma", sess |-> 0,
     competencia_formatada |-> <<>>, dir |-> "", pagina |-> 0, linha |-> 0,
     encontrou_competencia |-> FALSE,
     portal |-> 0, auth |-> "nao_chamada",
     capturas |-> [emitidas |-> 0, recebidas |-> 0], falhas |-> 0,
     varreu |-> {}, exc_tabela |-> {}, exc_nav |-> "nenhuma"]

\* ExecucaoInfo(empresa_id=..., cnpj=..., competencia=..., tipo=..., headless=...)
ExecucaoInfo(ped) ==
    [empresa_id |-> ped.empresa_id, cnpj |-> ped.cnpj,
     competencia |-> ped.competencia, tipo |-> ped.tipo,
     headless |-> ped.headless,
     status |-> "pendente", etapa_atual |-> "inicio", progresso |-> 0,
     logs |-> <<>>, mensagem |-> "aguardando",
     data_inicio |-> FALSE, data_fim |-> FALSE, erro |-> "None",
     page |-> 0, context |-> 0, browser |-> 0, playwright |-> 0]

\* obter_status was not called yet
SemConsulta ==
    [empresa_id |-> "", achou |-> FALSE, status |-> "pendente", etapa_atual |-> "inicio",
     progresso |-> 0, data_fim |-> FALSE, erro |-> "None"]

\* verificar_nota_valida is not running
NotaParada ==
    [pc |-> "parado", img |-> FALSE, alt |-> <<>>, src |-> <<>>, class |-> <<>>, valida |-> TRUE]

\* sanitizar_nome_pasta is not running
PastaParada == [pc |-> "parado", nome |-> <<>>, uma |-> <<>>, duas |-> <<>>]

\* baixar_arquivos_da_linha is not running
CapturaParada ==
    [pc |-> "parado", tipo |-> "emitida", xml |-> "nao", pdf |-> "nao",
     fechar |-> "nao", erro |-> "nao"]

\* line 471: _execution_service = None when the module is imported (0: None);
\* criadas counts the ExecutionService objects constructed; each request
\* thread (FastAPI runs the "def" endpoints in a thread pool) has its
\* position, the object it constructed and the one returned
ModuloImportado ==
    [execution_service |-> 0, criadas |-> 0,
     req |-> [r \in 1..MaxRequests |-> [pc |-> "livre", nova |-> 0, obtida |-> 0]]]

\* baixar_arquivo_direto_sync is not running
DownloadParado == [pc |-> "parado", content_type |-> <<>>, content |-> <<>>, extensao |-> "None"]

\* ExecutionService.__init__ (53-61)
InitServico ==
    /\ fila_execucoes = <<>>
    /\ execucoes_ativas = [e \in EmpresaIds |-> 0]
    /\ thread_executora = 0
    /\ rodando = FALSE
    /\ lock = 0
    /\ execs = <<>>
    /\ chamadas = [k \in Calls |-> ChamadaLivre]
    /\ threads = [t \in Calls |-> ThreadParada]
    /\ abertos = {}
    /\ diretas = [d \in Diretas |-> [pc |-> "livre", headless |-> FALSE, sess |-> 0]]
    /\ limpezas = <<>>

Init ==
    /\ InitServico
    /\ consultas = SemConsulta
    /\ download = DownloadParado
    /\ modulo = ModuloImportado
    /\ portais = "Portais"
    /\ captura = CapturaParada
    /\ pasta = PastaParada
    /\ nota = NotaParada

\* The browser process a run launches, and the one a direct call launches.
BrowserDe(r) == r
BrowserDaDireta(d) == MaxCalls + d

\* --------------------------------------------------- adicionar_execucao
\* lines 87-93: the validations (raise ValueError)
PedidoInvalido(ped) ==
    \/ ped.empresa_id = ""
    \/ ped.cnpj = <<>>
    \/ ped.competencia = <<>>

\* lines 95-101: str(...).strip() and the default of headless
Normalizar(ped) ==
    [ped EXCEPT !.cnpj = Strip(ped.cnpj),
                !.competencia = Strip(ped.competencia),
                !.headless = IF ped.headless = "None" THEN PLAYWRIGHT_HEADLESS
                             ELSE ped.headless = "True"]

\* Rejeitar with the validations made after the put: the invalid request is
\* queued before ValueError is raised
RejeitarAposEnfileirar(k, ped) ==
    /\ chamadas[k].pc = "livre"
    /\ \A j \in 1..(k - 1) : chamadas[j].pc # "livre"
    /\ PedidoInvalido(ped)
    /\ execs' = Append(execs, ExecucaoInfo(Normalizar(ped)))
    /\ limpezas' = Append(limpezas, 0)
    /\ fila_execucoes' = Append(fila_execucoes, Len(execs) + 1)
    /\ chamadas' = [chamadas EXCEPT ![k] = [pc |-> "rejeitada", exec |-> 0]]
    /\ UNCHANGED << consultas, download, nota, pasta, captura, portais, modulo >>
    /\ UNCHANGED << execucoes_ativas, thread_executora, rodando,
                    lock, threads, abertos, diretas >>

\* lines 87-93: a call with invalid arguments raises ValueError
Rejeitar(k, ped) ==
    /\ chamadas[k].pc = "livre"
    /\ \A j \in 1..(k - 1) : chamadas[j].pc # "livre"
    /\ PedidoInvalido(ped)
    /\ chamadas' = [chamadas EXCEPT ![k] = [pc |-> "rejeitada", exec |-> 0]]
    /\ UNCHANGED << consultas, download, nota, pasta, captura, portais, modulo >>
    /\ UNCHANGED << fila_execucoes, execucoes_ativas, thread_executora, rodando,
                    lock, execs, threads, abertos, diretas, limpezas >>

\* lines 87-114: a call with valid arguments takes the lock, creates the
\* ExecucaoInfo and puts it in the queue
Enfileirar(k, ped) ==
    /\ chamadas[k].pc = "livre"
    /\ \A j \in 1..(k - 1) : chamadas[j].pc # "livre"
    /\ ~PedidoInvalido(ped)
    /\ lock = 0
    /\ lock' = k
    /\ execs' = Append(execs, ExecucaoInfo(Normalizar(ped)))
    /\ limpezas' = Append(limpezas, 0)
    /\ fila_execucoes' = Append(fila_execucoes, Len(execs) + 1)
    /\ chamadas' = [chamadas EXCEPT ![k] = [pc |-> "enfileirada", exec |-> Len(execs) + 1]]
    /\ UNCHANGED << consultas, download, nota, pasta, captura, portais, modulo >>
    /\ UNCHANGED << execucoes_ativas, thread_executora, rodando, threads,
                    abertos, diretas >>

\* RegistrarEIniciar without the test of self.rodando (line 120): every call
\* starts a thread
RegistrarEIniciarSempre(k) ==
    /\ chamadas[k].pc = "enfileirada"
    /\ lock = k
    /\ execucoes_ativas' =
         [execucoes_ativas EXCEPT ![execs[chamadas[k].exec].empresa_id] = chamadas[k].exec]
    /\ rodando' = TRUE
    /\ thread_executora' = k
    /\ threads' = [threads EXCEPT ![k].pc = "get"]
    /\ lock' = 0
    /\ chamadas' = [chamadas EXCEPT ![k] = [pc |-> "retornou", exec |-> 0]]
    /\ UNCHANGED << consultas, download, nota, pasta, captura, portais, modulo >>
    /\ UNCHANGED << fila_execucoes, execs, abertos, diretas, limpezas >>

\* lines 115-133: the run is registered under its empresa_id, the worker
\* thread is started if none is running, and the lock is released
RegistrarEIniciar(k) ==
    /\ chamadas[k].pc = "enfileirada"
    /\ lock = k
    /\ execucoes_ativas' =
         [execucoes_ativas EXCEPT ![execs[chamadas[k].exec].empresa_id] = chamadas[k].exec]
    /\ IF ~rodando
       THEN /\ rodando' = TRUE
            /\ thread_executora' = k
            /\ threads' = [threads EXCEPT ![k].pc = "get"]
       ELSE UNCHANGED << rodando, thread_executora, threads >>
    /\ lock' = 0
    /\ chamadas' = [chamadas EXCEPT ![k] = [pc |-> "retornou", exec |-> 0]]
    /\ UNCHANGED << consultas, download, nota, pasta, captura, portais, modulo >>
    /\ UNCHANGED << fila_execucoes, execs, abertos, diretas, limpezas >>

\* ------------------------------------------------ _processar_fila_isolada
\* Retirar on a stack: the newest item is taken
RetirarUltimo(f) == [item |-> f[Len(f)], resto |-> SubSeq(f, 1, Len(f) - 1)]

\* Queue.get: the item taken and what stays in the queue
Retirar(f) == [item |-> Head(f), resto |-> Tail(f)]

\* line 194: self.fila_execucoes.get(timeout=QUEUE_TIMEOUT) returns an item
ObterDaFila(t) ==
    /\ threads[t].pc = "get"
    /\ fila_execucoes # <<>>
    /\ fila_execucoes' = Retirar(fila_execucoes).resto
    /\ threads' = [threads EXCEPT ![t].pc = "inicio",
                                  ![t].exec = Retirar(fila_execucoes).item]
    /\ UNCHANGED << consultas, download, nota, pasta, captura, portais, modulo >>
    /\ UNCHANGED << execucoes_ativas, thread_executora, rodando, lock, execs,
                    chamadas, abertos, diretas, limpezas >>

\* lines 194, 205-207: the get times out on an empty queue (raises Empty)
TimeoutDaFila(t) ==
    /\ threads[t].pc = "get"
    /\ fila_execucoes = <<>>
    /\ threads' = [threads EXCEPT ![t].pc = "timeout"]
    /\ UNCHANGED << consultas, download, nota, pasta, captura, portais, modulo >>
    /\ UNCHANGED << fila_execucoes, execucoes_ativas, thread_executora, rodando,
                    lock, execs, chamadas, abertos, diretas, limpezas >>

\* line 208: with self.lock
TravarAposTimeout(t) ==
    /\ threads[t].pc = "timeout"
    /\ lock = 0
    /\ lock' = MaxCalls + t
    /\ threads' = [threads EXCEPT ![t].pc = "travada"]
    /\ UNCHANGED << consultas, download, nota, pasta, captura, portais, modulo >>
    /\ UNCHANGED << fila_execucoes, execucoes_ativas, thread_executora, rodando,
                    execs, chamadas, abertos, diretas, limpezas >>

\* lines 209-214: stop if the queue is still empty, else keep looping
DecidirParada(t) ==
    /\ threads[t].pc = "travada"
    /\ lock = MaxCalls + t
    /\ IF fila_execucoes = <<>>
       THEN /\ rodando' = FALSE
            /\ threads' = [threads EXCEPT ![t].pc = "saiu"]
       ELSE /\ threads' = [threads EXCEPT ![t].pc = "get"]
            /\ UNCHANGED rodando
    /\ lock' = 0
    /\ UNCHANGED << consultas, download, nota, pasta, captura, portais, modulo >>
    /\ UNCHANGED << fila_execucoes, execucoes_ativas, thread_executora, execs,
                    chamadas, abertos, diretas, limpezas >>

\* ------------------------------------------------- verificar_nota_valida
Maiusculas == <<"A","B","C","D","E","F","G","H","I","J","K","L","M","N","O","P","Q","R","S","T","U","V","W","X","Y","Z">>
Minusculas == <<"a","b","c","d","e","f","g","h","i","j","k","l","m","n","o","p","q","r","s","t","u","v","w","x","y","z">>

LowerChar(c) ==
    IF \E i \in 1..Len(Maiusculas) : Maiusculas[i] = c
    THEN Minusculas[CHOOSE i \in 1..Len(Maiusculas) : Maiusculas[i] = c]
    ELSE c

\* str.lower()
Lower(s) == [i \in 1..Len(s) |-> LowerChar(s[i])]

\* sub in s
Contem(s, sub) ==
    \E i \in 1..(Len(s) - Len(sub) + 1) : SubSeq(s, i, i + Len(sub) - 1) = sub

PalavrasAlt == { <<"c","a","n","c","e","l","a","d","a">>, <<"c","a","n","c","e","l">>, <<"i","n","v","á","l","i","d","a">>, <<"i","n","v","a","l","i","d">> }
PalavrasSrc == { <<"c","a","n","c","e","l">>, <<"i","n","v","a","l","i","d">> }

\* lines 865-897: the row is invalid when the alt or the src of its status
\* image contains a negative keyword; no image, or an error, means valid
VerificarNotaValida(linha) ==
    IF linha.img
    THEN /\ ~(linha.alt # <<>> /\ \E w \in PalavrasAlt : Contem(Lower(linha.alt), w))
         /\ ~(linha.src # <<>> /\ \E w \in PalavrasSrc : Contem(Lower(linha.src), w))
    ELSE TRUE

\* --------------------------------------------------- abrir_dashboard_nfse
\* criar_contexto_com_certificado (126-186): "cert_ausente" raises before
\* anything is launched; "erro_contexto" raises after chromium.launch, with
\* the browser never handed to the caller; "ok" returns the open browser.
AposCriarContexto(ab, b, res) ==
    IF res \in {"ok", "erro_contexto"} THEN ab \cup {b} ELSE ab

\* the finally block (399-432): in headless mode page, context, browser and
\* playwright are closed, whatever the outcome; otherwise they stay open
AposFinally(ab, b, headless) == IF headless THEN ab \ {b} ELSE ab

\* ------------------------------------------------ _executar_fluxo_completo
\* _adicionar_log (423-428)
AdicionarLog(e, msg) == [e EXCEPT !.logs = Append(@, msg)]

\* line 275 / 433: execucao.headless if not None else PLAYWRIGHT_HEADLESS
HeadlessDe(e) == e.headless

\* lines 229-230
IniciarFluxo(t) ==
    /\ threads[t].pc = "inicio"
    /\ execs' = [execs EXCEPT ![threads[t].exec] =
                   [@ EXCEPT !.data_inicio = TRUE, !.status = "em_execucao"]]
    /\ threads' = [threads EXCEPT ![t].pc = "etapa1"]
    /\ UNCHANGED << consultas, download, nota, pasta, captura, portais, modulo >>
    /\ UNCHANGED << fila_execucoes, execucoes_ativas, thread_executora, rodando,
                    lock, chamadas, abertos, diretas, limpezas >>

\* lines 239-244: the CNPJ must be 14 characters long
CnpjRecusado(cnpj) == cnpj = <<>> \/ Strip(cnpj) = <<>> \/ Len(Strip(cnpj)) # 14

\* EtapaAutenticacao without the assignment of etapa_atual (line 234)
EtapaAutenticacaoSemEtapa(t) ==
    /\ threads[t].pc = "etapa1"
    /\ LET r == threads[t].exec
           e1 == [execs[r] EXCEPT !.progresso = 10, !.mensagem = "autenticando"]
       IN IF CnpjRecusado(execs[r].cnpj)
          THEN /\ execs' = [execs EXCEPT ![r] = e1]
               /\ threads' = [threads EXCEPT ![t].pc = "except", ![t].exc = "outra"]
          ELSE /\ execs' = [execs EXCEPT ![r] = AdicionarLog(e1, "etapa1")]
               /\ threads' = [threads EXCEPT ![t].pc = "abrir"]
    /\ UNCHANGED << consultas, download, nota, pasta, captura, portais, modulo >>
    /\ UNCHANGED << fila_execucoes, execucoes_ativas, thread_executora, rodando,
                    lock, chamadas, abertos, diretas, limpezas >>

\* lines 232-246: stage 1 begins; the CNPJ is validated
EtapaAutenticacao(t) ==
    /\ threads[t].pc = "etapa1"
    /\ LET r == threads[t].exec
           e1 == [execs[r] EXCEPT !.etapa_atual = "autenticacao", !.progresso = 10,
                                  !.mensagem = "autenticando"]
       IN IF CnpjRecusado(execs[r].cnpj)
          THEN /\ execs' = [execs EXCEPT ![r] = e1]
               /\ threads' = [threads EXCEPT ![t].pc = "except", ![t].exc = "outra"]
          ELSE /\ execs' = [execs EXCEPT ![r] = AdicionarLog(e1, "etapa1")]
               /\ threads' = [threads EXCEPT ![t].pc = "abrir"]
    /\ UNCHANGED << consultas, download, nota, pasta, captura, portais, modulo >>
    /\ UNCHANGED << fila_execucoes, execucoes_ativas, thread_executora, rodando,
                    lock, chamadas, abertos, diretas, limpezas >>

ResultadosContexto == {"cert_ausente", "erro_contexto", "ok"}

\* lines 248-288 and abrir_dashboard_nfse 222-244: playwright_nfse is imported
\* (the module is taken to be installed) and abrir_dashboard_nfse is called,
\* which creates the context with the certificate
CriarContexto(t, res) ==
    /\ threads[t].pc = "abrir"
    /\ LET r == threads[t].exec
       IN /\ abertos' = AposCriarContexto(abertos, BrowserDe(r), res)
          /\ CASE res \in {"cert_ausente", "erro_contexto"} ->
                    /\ execs' = [execs EXCEPT ![r] =
                         AdicionarLog(AdicionarLog(AdicionarLog(@, "importado"),
                                                   "chamando"), "erro_abrir")]
                    /\ threads' = [threads EXCEPT ![t].pc = "except", ![t].exc = "auth",
                                                  ![t].auth = res]
               [] res = "ok" ->
                    /\ execs' = [execs EXCEPT ![r] =
                         AdicionarLog(AdicionarLog(@, "importado"), "chamando")]
                    /\ threads' = [threads EXCEPT ![t].pc = "navegar", ![t].auth = res,
                                                  ![t].sess = BrowserDe(r)]
    /\ UNCHANGED << consultas, download, nota, pasta, captura, portais, modulo >>
    /\ UNCHANGED << fila_execucoes, execucoes_ativas, thread_executora, rodando,
                    lock, chamadas, diretas, limpezas >>

ResultadosNavegacao == {"erro_navegacao", "sem_dashboard", "sucesso"}

\* abrir_dashboard_nfse 246-432 and lines 283-293: the page is opened and
\* the portal visited; the finally block runs; the result is examined
Navegar(t, res) ==
    /\ threads[t].pc = "navegar"
    /\ LET r == threads[t].exec
       IN /\ abertos' = AposFinally(abertos, threads[t].sess, HeadlessDe(execs[r]))
          /\ CASE res = "erro_navegacao" ->
                    /\ execs' = [execs EXCEPT ![r] = AdicionarLog(@, "erro_abrir")]
                    /\ threads' = [threads EXCEPT ![t].pc = "except", ![t].exc = "auth",
                                                  ![t].auth = res, ![t].sess = 0]
               [] res = "sem_dashboard" ->
                    /\ execs' = [execs EXCEPT ![r] = AdicionarLog(@, "abrir_concluido")]
                    /\ threads' = [threads EXCEPT ![t].pc = "except", ![t].exc = "auth",
                                                  ![t].auth = res, ![t].sess = 0]
               [] res = "sucesso" ->
                    /\ execs' = [execs EXCEPT ![r] = AdicionarLog(@, "abrir_concluido")]
                    /\ threads' = [threads EXCEPT ![t].pc = "guardar", ![t].auth = res]
    /\ UNCHANGED << consultas, download, nota, pasta, captura, portais, modulo >>
    /\ UNCHANGED << fila_execucoes, execucoes_ativas, thread_executora, rodando,
                    lock, chamadas, diretas, limpezas >>

\* lines 295-313: the handles of the result are stored in the run
GuardarRecursos(t) ==
    /\ threads[t].pc = "guardar"
    /\ LET r == threads[t].exec
           b == threads[t].sess
           e1 == [execs[r] EXCEPT !.page = b, !.context = b, !.browser = b,
                                  !.playwright = b]
           e2 == [AdicionarLog(e1, "logs_auth") EXCEPT !.progresso = 30,
                                                       !.mensagem = "autenticado"]
       IN /\ execs' = [execs EXCEPT ![r] = AdicionarLog(e2, "auth_ok")]
          /\ threads' = [threads EXCEPT ![t].pc = "etapa23", ![t].sess = 0]
    /\ UNCHANGED << consultas, download, nota, pasta, captura, portais, modulo >>
    /\ UNCHANGED << fila_execucoes, execucoes_ativas, thread_executora, rodando,
                    lock, chamadas, abertos, diretas, limpezas >>

\* lines 323-334: MMAAAA -> MM/AAAA, anything else is used as it is
FormatarCompetencia(c) ==
    IF Len(c) = 6 /\ IsDigit(c)
    THEN SubSeq(c, 1, 2) \o <<"/">> \o SubSeq(c, 3, Len(c))
    ELSE c

\* line 317: the stage shown while the notes are processed
EtapaDoTipo(tipo) ==
    IF tipo \in {"emitidas", "ambas"} THEN "processamento_emitidas"
    ELSE "processamento_recebidas"

\* lines 351, 360, 375: the first direction processed for a tipo ("": none)
PrimeiraDirecao(tipo) ==
    CASE tipo \in {"ambas", "emitidas"} -> "emitidas"
      [] tipo = "recebidas" -> "recebidas"
      [] OTHER -> ""

\* lines 315-351: stage 2-3 begins; the competencia is converted. The portal
\* holds the listings Contas[p] for the account of the run.
EtapaProcessamento(t, p) ==
    /\ threads[t].pc = "etapa23"
    /\ LET r == threads[t].exec
           e1 == [execs[r] EXCEPT !.etapa_atual = EtapaDoTipo(execs[r].tipo),
                                  !.progresso = 40, !.mensagem = "processando"]
           e2 == AdicionarLog(AdicionarLog(AdicionarLog(e1, "etapa23"), "competencia"),
                              "importada")
           d == PrimeiraDirecao(execs[r].tipo)
       IN /\ execs' = [execs EXCEPT ![r] = e2]
          /\ threads' = [threads EXCEPT
               ![t].pc = IF d = "" THEN "fin_etapa" ELSE "nav",
               ![t].dir = d,
               ![t].portal = p,
               ![t].competencia_formatada = FormatarCompetencia(execs[r].competencia)]
    /\ UNCHANGED << consultas, download, nota, pasta, captura, portais, modulo >>
    /\ UNCHANGED << fila_execucoes, execucoes_ativas, thread_executora, rodando,
                    lock, chamadas, abertos, diretas, limpezas >>

\* ------------------------------------------------------- the table scanner
\* the accounts the portal holds, with their listings
Contas == IF portais = "Portais" THEN Portais ELSE PortaisVarredura

\* the listing of direction d the portal shows to thread t
ListagemDe(t, d) == Contas[threads[t].portal][d]

\* the rows of the page the browser of thread t displays
LinhasDaPagina(t) == ListagemDe(t, threads[t].dir).paginas[threads[t].pagina]

MaisUma(n) == IF n < MaxCapturas THEN n + 1 ELSE MaxCapturas

\* processar_notas 1616-1632 / 1637-1652 and execution_service 362-369 /
\* 377-384: click the menu of the direction and wait for the rows of its
\* table. Any failure propagates (processar_notas 1659-1661, lines 391-395).
NavegarListagem(t, res) ==
    /\ threads[t].pc = "nav"
    /\ LET r == threads[t].exec
           d == threads[t].dir
           falha == IF execs[r].page \notin abertos THEN "pagina_fechada"
                    ELSE IF res = "timeout" \/ ListagemDe(t, d).paginas = <<>>
                         THEN "timeout" ELSE "nenhuma"
       IN IF falha # "nenhuma"
          THEN /\ execs' = [execs EXCEPT ![r] = AdicionarLog(@, "erro_notas")]
               /\ threads' = [threads EXCEPT ![t].pc = "except", ![t].exc = "outra",
                                             ![t].exc_nav = falha]
          ELSE /\ threads' = [threads EXCEPT ![t].pc = "pagina", ![t].pagina = 1,
                                             ![t].varreu = @ \cup {d}]
               /\ UNCHANGED execs
    /\ UNCHANGED << consultas, download, nota, pasta, captura, portais, modulo >>
    /\ UNCHANGED << fila_execucoes, execucoes_ativas, thread_executora, rodando,
                    lock, chamadas, abertos, diretas, limpezas >>

\* AguardarTabela with the exception leaving processar_tabela_* instead of
\* ending the scan
AguardarTabelaPropaga(t, res) ==
    /\ threads[t].pc = "pagina"
    /\ IF res = "excecao" \/ Len(LinhasDaPagina(t)) = 0
       THEN threads' = [threads EXCEPT
                          ![t].pc = IF res = "excecao" THEN "except" ELSE "fim_varredura",
                          ![t].exc = IF res = "excecao" THEN "outra" ELSE @,
                          ![t].exc_tabela =
                             IF res = "excecao" THEN @ \cup {threads[t].dir} ELSE @]
       ELSE threads' = [threads EXCEPT ![t].pc = "linha", ![t].linha = 1,
                                       ![t].encontrou_competencia = FALSE]
    /\ UNCHANGED << consultas, download, nota, pasta, captura, portais, modulo >>
    /\ UNCHANGED << fila_execucoes, execucoes_ativas, thread_executora, rodando,
                    lock, execs, chamadas, abertos, diretas, limpezas >>

\* processar_tabela_* 1225-1245 (1386-1406): wait for the rows of the page;
\* a timeout or any other exception ends the scan (1365-1370)
AguardarTabela(t, res) ==
    /\ threads[t].pc = "pagina"
    /\ IF res = "excecao" \/ Len(LinhasDaPagina(t)) = 0
       THEN threads' = [threads EXCEPT
                          ![t].pc = "fim_varredura",
                          ![t].exc_tabela =
                             IF res = "excecao" THEN @ \cup {threads[t].dir} ELSE @]
       ELSE threads' = [threads EXCEPT ![t].pc = "linha", ![t].linha = 1,
                                       ![t].encontrou_competencia = FALSE]
    /\ UNCHANGED << consultas, download, nota, pasta, captura, portais, modulo >>
    /\ UNCHANGED << fila_execucoes, execucoes_ativas, thread_executora, rodando,
                    lock, execs, chamadas, abertos, diretas, limpezas >>

\* ProcessarLinha with a failure of the row leaving the loop over the rows
\* and the scan
ProcessarLinhaFalhaFatal(t) ==
    /\ threads[t].pc = "linha"
    /\ LET d == threads[t].dir
           linha == LinhasDaPagina(t)[threads[t].linha]
           alvo == /\ linha.comp # <<>>
                   /\ Strip(linha.comp) = threads[t].competencia_formatada
           ultima == threads[t].linha = Len(LinhasDaPagina(t))
           falhou == linha.comp = <<>> \/ (alvo /\ VerificarNotaValida(linha) /\ ~linha.menu)
       IN threads' = [threads EXCEPT
               ![t].capturas[d] =
                    IF alvo /\ VerificarNotaValida(linha) THEN MaisUma(@) ELSE @,
               ![t].falhas =
                    IF alvo /\ VerificarNotaValida(linha) /\ ~linha.menu THEN MaisUma(@) ELSE @,
               ![t].encontrou_competencia = @ \/ alvo,
               ![t].pc = IF falhou THEN "fim_varredura"
                         ELSE IF ultima THEN "fim_pagina" ELSE "linha",
               ![t].linha = IF ultima \/ falhou THEN @ ELSE @ + 1]
    /\ UNCHANGED << consultas, download, nota, pasta, captura, portais, modulo >>
    /\ UNCHANGED << fila_execucoes, execucoes_ativas, thread_executora, rodando,
                    lock, execs, chamadas, abertos, diretas, limpezas >>

\* ProcessarLinha with the loop over the rows stepping by two
ProcessarLinhaPulaUma(t) ==
    /\ threads[t].pc = "linha"
    /\ LET d == threads[t].dir
           linha == LinhasDaPagina(t)[threads[t].linha]
           alvo == /\ linha.comp # <<>>
                   /\ Strip(linha.comp) = threads[t].competencia_formatada
           ultima == threads[t].linha + 2 > Len(LinhasDaPagina(t))
       IN threads' = [threads EXCEPT
               ![t].capturas[d] =
                    IF alvo /\ VerificarNotaValida(linha) THEN MaisUma(@) ELSE @,
               ![t].falhas =
                    IF alvo /\ VerificarNotaValida(linha) /\ ~linha.menu THEN MaisUma(@) ELSE @,
               ![t].encontrou_competencia = @ \/ alvo,
               ![t].pc = IF ultima THEN "fim_pagina" ELSE "linha",
               ![t].linha = IF ultima THEN Len(LinhasDaPagina(t)) ELSE @ + 2]
    /\ UNCHANGED << consultas, download, nota, pasta, captura, portais, modulo >>
    /\ UNCHANGED << fila_execucoes, execucoes_ativas, thread_executora, rodando,
                    lock, execs, chamadas, abertos, diretas, limpezas >>

\* processar_tabela_* 1247-1304 (1408-1465): one row. A failure to read the
\* competencia (a row without that cell) is caught and the loop goes on; a
\* row of the target competencia that verificar_nota_valida accepts is
\* handed to baixar_arquivos_da_linha, which never raises: when the menu of
\* the row does not open the failure is logged there and the row counts as
\* processed (1270-1274).
ProcessarLinha(t) ==
    /\ threads[t].pc = "linha"
    /\ LET d == threads[t].dir
           linha == LinhasDaPagina(t)[threads[t].linha]
           alvo == /\ linha.comp # <<>>
                   /\ Strip(linha.comp) = threads[t].competencia_formatada
           ultima == threads[t].linha = Len(LinhasDaPagina(t))
       IN threads' = [threads EXCEPT
               ![t].capturas[d] =
                    IF alvo /\ VerificarNotaValida(linha) THEN MaisUma(@) ELSE @,
               ![t].falhas =
                    IF alvo /\ VerificarNotaValida(linha) /\ ~linha.menu THEN MaisUma(@) ELSE @,
               ![t].encontrou_competencia = @ \/ alvo,
               ![t].pc = IF ultima THEN "fim_pagina" ELSE "linha",
               ![t].linha = IF ultima THEN @ ELSE @ + 1]
    /\ UNCHANGED << consultas, download, nota, pasta, captura, portais, modulo >>
    /\ UNCHANGED << fila_execucoes, execucoes_ativas, thread_executora, rodando,
                    lock, execs, chamadas, abertos, diretas, limpezas >>

\* processar_tabela_* 1311-1363 (1472-1523): go to the next page only when the
\* page had a row of the target competencia, its last row still has it, and
\* the "next" control exists without a disabled attribute. The page that is
\* displayed after the click: the next one, or the same rows when there is
\* none; 0 when the scan ends (break).
ProximaPagina(t) ==
    LET linhas == LinhasDaPagina(t)
        lst == ListagemDe(t, threads[t].dir)
        ultima == linhas[Len(linhas)]
        ha_seguinte == threads[t].pagina < Len(lst.paginas)
    IN IF /\ threads[t].encontrou_competencia
          /\ ultima.comp # <<>>
          /\ Strip(ultima.comp) = threads[t].competencia_formatada
          /\ ha_seguinte \/ lst.prox = "habilitado"
       THEN IF ha_seguinte THEN threads[t].pagina + 1 ELSE threads[t].pagina
       ELSE 0

\* FimDaPagina stopping after every page that has rows of another period
FimDaPaginaParaNaMista(t) ==
    /\ threads[t].pc = "fim_pagina"
    /\ LET outra == \E i \in 1..Len(LinhasDaPagina(t)) :
                        /\ LinhasDaPagina(t)[i].comp # <<>>
                        /\ Strip(LinhasDaPagina(t)[i].comp) # threads[t].competencia_formatada
           prox == IF outra THEN 0 ELSE ProximaPagina(t)
       IN threads' = [threads EXCEPT
            ![t].pc = IF prox = 0 THEN "fim_varredura" ELSE "pagina",
            ![t].pagina = IF prox = 0 THEN @ ELSE prox,
            ![t].linha = 0,
            ![t].encontrou_competencia = FALSE]
    /\ UNCHANGED << consultas, download, nota, pasta, captura, portais, modulo >>
    /\ UNCHANGED << fila_execucoes, execucoes_ativas, thread_executora, rodando,
                    lock, execs, chamadas, abertos, diretas, limpezas >>

FimDaPagina(t) ==
    /\ threads[t].pc = "fim_pagina"
    /\ threads' = [threads EXCEPT
         ![t].pc = IF ProximaPagina(t) = 0 THEN "fim_varredura" ELSE "pagina",
         ![t].pagina = IF ProximaPagina(t) = 0 THEN @ ELSE ProximaPagina(t),
         ![t].linha = 0,
         ![t].encontrou_competencia = FALSE]
    /\ UNCHANGED << consultas, download, nota, pasta, captura, portais, modulo >>
    /\ UNCHANGED << fila_execucoes, execucoes_ativas, thread_executora, rodando,
                    lock, execs, chamadas, abertos, diretas, limpezas >>

\* processar_tabela_* returns (1372 / 1533). In processar_notas the received
\* listing follows the issued one (1637); otherwise lines 357-359, 372-374
\* or 387-389 report the notes as processed.
FimDaVarredura(t) ==
    /\ threads[t].pc = "fim_varredura"
    /\ LET r == threads[t].exec
       IN IF execs[r].tipo = "ambas" /\ threads[t].dir = "emitidas"
          THEN /\ threads' = [threads EXCEPT ![t].pc = "nav", ![t].dir = "recebidas",
                                             ![t].pagina = 0]
               /\ UNCHANGED execs
          ELSE /\ threads' = [threads EXCEPT ![t].pc = "fin_etapa", ![t].dir = "",
                                             ![t].pagina = 0]
               /\ execs' = [execs EXCEPT ![r] =
                    AdicionarLog([@ EXCEPT !.progresso = 90, !.mensagem = "processadas"],
                                 "ok_notas")]
    /\ UNCHANGED << consultas, download, nota, pasta, captura, portais, modulo >>
    /\ UNCHANGED << fila_execucoes, execucoes_ativas, thread_executora, rodando,
                    lock, chamadas, abertos, diretas, limpezas >>

\* ------------------------------------------- stage 4, failure and cleanup
\* one assignment to a field of the run being processed
Atribuir(t, de, para, campo, valor) ==
    /\ threads[t].pc = de
    /\ execs' = [execs EXCEPT ![threads[t].exec][campo] = valor]
    /\ threads' = [threads EXCEPT ![t].pc = para]
    /\ UNCHANGED << consultas, download, nota, pasta, captura, portais, modulo >>
    /\ UNCHANGED << fila_execucoes, execucoes_ativas, thread_executora, rodando,
                    lock, chamadas, abertos, diretas, limpezas >>

\* line 398
FinalizarEtapa(t) == Atribuir(t, "fin_etapa", "fin_progresso", "etapa_atual", "finalizacao")

\* line 399
FinalizarProgresso(t) == Atribuir(t, "fin_progresso", "fin_status", "progresso", 100)

\* line 400
FinalizarStatus(t) == Atribuir(t, "fin_status", "fin_data", "status", "concluido")

\* lines 401-402
FinalizarDataFim(t) ==
    /\ threads[t].pc = "fin_data"
    /\ execs' = [execs EXCEPT ![threads[t].exec] =
                   [@ EXCEPT !.mensagem = "concluida", !.data_fim = TRUE]]
    /\ threads' = [threads EXCEPT ![t].pc = "fin_log"]
    /\ UNCHANGED << consultas, download, nota, pasta, captura, portais, modulo >>
    /\ UNCHANGED << fila_execucoes, execucoes_ativas, thread_executora, rodando,
                    lock, chamadas, abertos, diretas, limpezas >>

\* FinalizarLog with _adicionar_log raising inside the try block
FinalizarLogLevanta(t) ==
    /\ threads[t].pc = "fin_log"
    /\ threads' = [threads EXCEPT ![t].pc = "except", ![t].exc = "outra"]
    /\ UNCHANGED << consultas, download, nota, pasta, captura, portais, modulo >>
    /\ UNCHANGED << fila_execucoes, execucoes_ativas, thread_executora, rodando,
                    lock, execs, chamadas, abertos, diretas, limpezas >>

\* line 403
FinalizarLog(t) ==
    /\ threads[t].pc = "fin_log"
    /\ execs' = [execs EXCEPT ![threads[t].exec] = AdicionarLog(@, "concluida")]
    /\ threads' = [threads EXCEPT ![t].pc = "limpar"]
    /\ UNCHANGED << consultas, download, nota, pasta, captura, portais, modulo >>
    /\ UNCHANGED << fila_execucoes, execucoes_ativas, thread_executora, rodando,
                    lock, chamadas, abertos, diretas, limpezas >>

\* lines 405-408 / 410-411: except Exception: the status
FalharStatus(t) == Atribuir(t, "except", "falha_erro", "status", "falhou")

\* FalharErro with the progress of a failed run set back to 0
FalharErroZera(t) ==
    /\ threads[t].pc = "falha_erro"
    /\ LET txt == IF threads[t].exc = "auth" THEN "erro_autenticacao" ELSE "erro_etapa"
       IN execs' = [execs EXCEPT ![threads[t].exec] =
                      [@ EXCEPT !.erro = txt, !.mensagem = txt, !.progresso = 0]]
    /\ threads' = [threads EXCEPT ![t].pc = "falha_data", ![t].exc = "nenhuma"]
    /\ UNCHANGED << consultas, download, nota, pasta, captura, portais, modulo >>
    /\ UNCHANGED << fila_execucoes, execucoes_ativas, thread_executora, rodando,
                    lock, chamadas, abertos, diretas, limpezas >>

\* lines 407-414: the text of the error names the authentication or the stage
FalharErro(t) ==
    /\ threads[t].pc = "falha_erro"
    /\ LET txt == IF threads[t].exc = "auth" THEN "erro_autenticacao" ELSE "erro_etapa"
       IN execs' = [execs EXCEPT ![threads[t].exec] =
                      [@ EXCEPT !.erro = txt, !.mensagem = txt]]
    /\ threads' = [threads EXCEPT ![t].pc = "falha_data", ![t].exc = "nenhuma"]
    /\ UNCHANGED << consultas, download, nota, pasta, captura, portais, modulo >>
    /\ UNCHANGED << fila_execucoes, execucoes_ativas, thread_executora, rodando,
                    lock, chamadas, abertos, diretas, limpezas >>

\* line 415
FalharDataFim(t) == Atribuir(t, "falha_data", "falha_log", "data_fim", TRUE)

\* FalharLog with the cleanup left out of the failure path (no finally)
FalharLogSemFinally(t) ==
    /\ threads[t].pc = "falha_log"
    /\ execs' = [execs EXCEPT ![threads[t].exec] = AdicionarLog(@, "erro")]
    /\ threads' = [threads EXCEPT ![t].pc = "task_done"]
    /\ UNCHANGED << consultas, download, nota, pasta, captura, portais, modulo >>
    /\ UNCHANGED << fila_execucoes, execucoes_ativas, thread_executora, rodando,
                    lock, chamadas, abertos, diretas, limpezas >>

\* line 416
FalharLog(t) ==
    /\ threads[t].pc = "falha_log"
    /\ execs' = [execs EXCEPT ![threads[t].exec] = AdicionarLog(@, "erro")]
    /\ threads' = [threads EXCEPT ![t].pc = "limpar"]
    /\ UNCHANGED << consultas, download, nota, pasta, captura, portais, modulo >>
    /\ UNCHANGED << fila_execucoes, execucoes_ativas, thread_executora, rodando,
                    lock, chamadas, abertos, diretas, limpezas >>

\* _limpar_recursos (430-467): in headless mode page, context, browser and
\* playwright are closed; otherwise the browser is kept open. The fields of
\* the run keep their values.
RecursosFechados(e) ==
    IF HeadlessDe(e) THEN {e.page, e.context, e.browser, e.playwright} \ {0} ELSE {}

\* lines 419-421: finally: self._limpar_recursos(execucao)
LimparRecursos(t) ==
    /\ threads[t].pc = "limpar"
    /\ LET r == threads[t].exec
       IN /\ abertos' = abertos \ RecursosFechados(execs[r])
          /\ execs' = [execs EXCEPT ![r] =
               AdicionarLog(@, IF HeadlessDe(execs[r]) THEN "liberados" ELSE "mantido")]
          /\ limpezas' = [limpezas EXCEPT ![r] = @ + 1]
    /\ threads' = [threads EXCEPT ![t].pc = "task_done"]
    /\ UNCHANGED << consultas, download, nota, pasta, captura, portais, modulo >>
    /\ UNCHANGED << fila_execucoes, execucoes_ativas, thread_executora, rodando,
                    lock, chamadas, diretas >>

\* lines 200-203: task_done(); back to the top of the loop
TaskDone(t) ==
    /\ threads[t].pc = "task_done"
    /\ threads' = [threads EXCEPT ![t] = [ThreadParada EXCEPT !.pc = "get"]]
    /\ UNCHANGED << consultas, download, nota, pasta, captura, portais, modulo >>
    /\ UNCHANGED << fila_execucoes, execucoes_ativas, thread_executora, rodando,
                    lock, execs, chamadas, abertos, diretas, limpezas >>

\* ------------------------------------------------ routers/nfse.py
\* abrir_dashboard (78-96): the endpoint calls abrir_dashboard_nfse itself,
\* on the request thread: the context is created
DiretaCriar(d, h, res) ==
    /\ diretas[d].pc = "livre"
    /\ abertos' = AposCriarContexto(abertos, BrowserDaDireta(d), res)
    /\ diretas' = [diretas EXCEPT ![d] =
         IF res = "ok"
         THEN [pc |-> "navegando", headless |-> h, sess |-> BrowserDaDireta(d)]
         ELSE [pc |-> "retornou", headless |-> FALSE, sess |-> 0]]
    /\ UNCHANGED << consultas, download, nota, pasta, captura, portais, modulo >>
    /\ UNCHANGED << fila_execucoes, execucoes_ativas, thread_executora, rodando,
                    lock, execs, chamadas, threads, limpezas >>

\* abrir_dashboard (92-119): abrir_dashboard_nfse finishes (finally) and the
\* endpoint answers, keeping none of the handles
DiretaRetornar(d) ==
    /\ diretas[d].pc = "navegando"
    /\ abertos' = AposFinally(abertos, diretas[d].sess, diretas[d].headless)
    /\ diretas' = [diretas EXCEPT ![d] = [pc |-> "retornou", headless |-> FALSE, sess |-> 0]]
    /\ UNCHANGED << consultas, download, nota, pasta, captura, portais, modulo >>
    /\ UNCHANGED << fila_execucoes, execucoes_ativas, thread_executora, rodando,
                    lock, execs, chamadas, threads, limpezas >>

\* ------------------------------------------------------ obter_status
\* obter_status (135-163): under the lock, the run registered for the
\* empresa_id is looked up and its fields are copied into the answer; None
\* when there is none. The caller keeps the last answer.
ObterStatus(e) ==
    /\ lock = 0
    /\ consultas' =
         IF execucoes_ativas[e] = 0
         THEN [SemConsulta EXCEPT !.empresa_id = e]
         ELSE [empresa_id |-> e, achou |-> TRUE,
               status |-> execs[execucoes_ativas[e]].status,
               etapa_atual |-> execs[execucoes_ativas[e]].etapa_atual,
               progresso |-> execs[execucoes_ativas[e]].progresso,
               data_fim |-> execs[execucoes_ativas[e]].data_fim,
               erro |-> execs[execucoes_ativas[e]].erro]
    /\ UNCHANGED << fila_execucoes, execucoes_ativas, thread_executora, rodando,
                    lock, execs, chamadas, threads, abertos, diretas, limpezas,
                    download, nota, pasta, captura, portais, modulo >>

\* ------------------------------------------------------------ specification
Next ==
    \/ \E k \in Calls, ped \in Pedidos : Rejeitar(k, ped)
    \/ \E k \in Calls, ped \in Pedidos : Enfileirar(k, ped)
    \/ \E k \in Calls : RegistrarEIniciar(k)
    \/ \E t \in Calls : ObterDaFila(t)
    \/ \E t \in Calls : TimeoutDaFila(t)
    \/ \E t \in Calls : TravarAposTimeout(t)
    \/ \E t \in Calls : DecidirParada(t)
    \/ \E t \in Calls : IniciarFluxo(t)
    \/ \E t \in Calls : EtapaAutenticacao(t)
    \/ \E t \in Calls, res \in ResultadosContexto : CriarContexto(t, res)
    \/ \E t \in Calls, res \in ResultadosNavegacao : Navegar(t, res)
    \/ \E t \in Calls : GuardarRecursos(t)
    \/ \E t \in Calls, p \in 1..Len(Contas) : EtapaProcessamento(t, p)
    \/ \E t \in Calls, res \in {"ok", "timeout"} : NavegarListagem(t, res)
    \/ \E t \in Calls, res \in {"ok", "excecao"} : AguardarTabela(t, res)
    \/ \E t \in Calls : ProcessarLinha(t)
    \/ \E t \in Calls : FimDaPagina(t)
    \/ \E t \in Calls : FimDaVarredura(t)
    \/ \E t \in Calls : FinalizarEtapa(t)
    \/ \E t \in Calls : FinalizarProgresso(t)
    \/ \E t \in Calls : FinalizarStatus(t)
    \/ \E t \in Calls : FinalizarDataFim(t)
    \/ \E t \in Calls : FinalizarLog(t)
    \/ \E t \in Calls : FalharStatus(t)
    \/ \E t \in Calls : FalharErro(t)
    \/ \E t \in Calls : FalharDataFim(t)
    \/ \E t \in Calls : FalharLog(t)
    \/ \E t \in Calls : LimparRecursos(t)
    \/ \E t \in Calls : TaskDone(t)

Spec == Init /\ [][Next]_vars

\* The engine in front of the accounts of PortaisVarredura, for one run: the
\* service as it stands after the earlier calls of adicionar_execucao were
\* rejected (lines 87-93 leave the service untouched).
InitVarredura ==
    /\ fila_execucoes = <<>>
    /\ execucoes_ativas = [e \in EmpresaIds |-> 0]
    /\ thread_executora = 0
    /\ rodando = FALSE
    /\ lock = 0
    /\ execs = <<>>
    /\ chamadas = [k \in Calls |-> IF k < MaxCalls THEN [pc |-> "rejeitada", exec |-> 0]
                                   ELSE ChamadaLivre]
    /\ threads = [t \in Calls |-> ThreadParada]
    /\ abertos = {}
    /\ diretas = [d \in Diretas |-> [pc |-> "livre", headless |-> FALSE, sess |-> 0]]
    /\ limpezas = <<>>
    /\ consultas = SemConsulta
    /\ download = DownloadParado
    /\ modulo = ModuloImportado
    /\ nota = NotaParada
    /\ pasta = PastaParada
    /\ captura = CapturaParada
    /\ portais = "PortaisVarredura"

SpecVarredura == InitVarredura /\ [][Next]_vars

\* The engine together with the direct calls of the endpoint abrir_dashboard.
NextComDiretas ==
    \/ Next
    \/ \E d \in Diretas, h \in BOOLEAN, res \in {"cert_ausente", "erro_contexto", "ok"} :
          DiretaCriar(d, h, res)
    \/ \E d \in Diretas : DiretaRetornar(d)

SpecComDiretas == Init /\ [][NextComDiretas]_vars

\* The engine with a caller that polls obter_status.
NextComConsultas ==
    \/ Next
    \/ \E e \in EmpresaIds : ObterStatus(e)

SpecComConsultas == Init /\ [][NextComConsultas]_vars

\* ------------------------------------- baixar_arquivo_direto_sync (269-641)
\* content-type headers of the response, as the server sends them
CtAusente == <<>>
CtTextXml == <<"t","e","x","t","/","x","m","l">>
CtAppXml == <<"a","p","p","l","i","c","a","t","i","o","n","/","x","m","l">>
CtAppPdf == <<"a","p","p","l","i","c","a","t","i","o","n","/","p","d","f">>
CtAppPdfMaiusculo == <<"A","p","p","l","i","c","a","t","i","o","n","/","P","D","F">>
CtOctetStream == <<"a","p","p","l","i","c","a","t","i","o","n","/","o","c","t","e","t","-","s","t","r","e","a","m">>
CtTextHtml == <<"t","e","x","t","/","h","t","m","l">>
CtAppJson == <<"a","p","p","l","i","c","a","t","i","o","n","/","j","s","o","n">>
ContentTypes ==
    {CtAusente, CtTextXml, CtAppXml, CtAppPdf, CtAppPdfMaiusculo, CtOctetStream,
     CtTextHtml, CtAppJson}

\* bodies of the response
ConteudoVazio == <<>>
ConteudoPdf == <<"%","P","D","F","-","1",".","4"," ","o","b","j">>
ConteudoXml == <<"<","?","x","m","l"," ","v","e","r","s","i","o","n">>
ConteudoHtml == <<"<","h","t","m","l",">">>
ConteudoJson == <<"{","}">>
ConteudoZip == <<"P","K","3","4">>
Conteudos ==
    {ConteudoVazio, ConteudoPdf, ConteudoXml, ConteudoHtml, ConteudoJson, ConteudoZip}

\* lines 430-435: the header, lower-cased, and the body have been read
Resposta(h, c) ==
    [pc |-> "resposta", content_type |-> Lower(h), content |-> c, extensao |-> "None"]

\* bytes.startswith
ComecaCom(s, p) == Len(s) >= Len(p) /\ SubSeq(s, 1, Len(p)) = p

\* lines 441-446: the extension the content-type gives
ExtensaoPeloContentType(ct) ==
    IF Contem(ct, <<"x","m","l">>) THEN ".xml"
    ELSE IF Contem(ct, <<"p","d","f">>) THEN ".pdf"
    ELSE "None"

\* line 453: content[:10]
PrimeirosBytes(content) == IF Len(content) >= 10 THEN SubSeq(content, 1, 10) ELSE content

\* lines 455-463: the extension the first bytes give
ExtensaoPeloConteudo(content) ==
    IF \/ ComecaCom(PrimeirosBytes(content), <<"<","?","x","m","l">>)
       \/ ComecaCom(PrimeirosBytes(content), <<"<">>)
    THEN ".xml"
    ELSE IF ComecaCom(PrimeirosBytes(content), <<"%","P","D","F">>) THEN ".pdf"
    ELSE ".bin"

\* lines 438-446 (download_manager.py 524-532): step 9.1
DetectarPeloContentType ==
    /\ download.pc = "resposta"
    /\ download' = [download EXCEPT !.pc = "detectada",
                                    !.extensao = ExtensaoPeloContentType(download.content_type)]
    /\ UNCHANGED << fila_execucoes, execucoes_ativas, thread_executora, rodando,
                    lock, execs, chamadas, threads, abertos, diretas, limpezas,
                    consultas, nota, pasta, captura, portais, modulo >>

\* lines 448-463 (download_manager.py 534-549): step 9.2, the content is
\* looked at only when the header gave nothing or was octet-stream
DetectarPeloConteudo ==
    /\ download.pc = "detectada"
    /\ download' = [download EXCEPT
         !.pc = "fim",
         !.extensao = IF download.extensao = "None" \/ download.content_type = Lower(CtOctetStream)
                      THEN ExtensaoPeloConteudo(download.content)
                      ELSE @]
    /\ UNCHANGED << fila_execucoes, execucoes_ativas, thread_executora, rodando,
                    lock, execs, chamadas, threads, abertos, diretas, limpezas,
                    consultas, nota, pasta, captura, portais, modulo >>

\* One call of baixar_arquivo_direto_sync for every response explored.
InitExtensao ==
    /\ InitServico
    /\ consultas = SemConsulta
    /\ download \in {Resposta(h, c) : h \in ContentTypes, c \in Conteudos}
    /\ modulo = ModuloImportado
    /\ portais = "Portais"
    /\ captura = CapturaParada
    /\ pasta = PastaParada
    /\ nota = NotaParada

NextExtensao == DetectarPeloContentType \/ DetectarPeloConteudo

SpecExtensao == InitExtensao /\ [][NextExtensao]_vars

\* ------------------------------------------------- verificar_nota_valida
\* attributes a status image may carry (<<>>: the attribute is absent)
\* alt: absent, "Emitida", "Cancelada", "CANCELADA", "Nota inválida"
Alts ==
    {<<>>, AltEmitida, AltCancelada,
     <<"C","A","N","C","E","L","A","D","A">>,
     <<"N","o","t","a"," ","i","n","v","á","l","i","d","a">>}
\* src: absent, "ok.png", "img/cancel.png"
Srcs == {<<>>, SrcOk, <<"i","m","g","/","c","a","n","c","e","l",".","p","n","g">>}
\* class: absent, "icone", "icone cancelada", "invalid"
Classes ==
    {<<>>, <<"i","c","o","n","e">>,
     <<"i","c","o","n","e"," ","c","a","n","c","e","l","a","d","a">>,
     <<"i","n","v","a","l","i","d">>}

\* lines 865-872: the sixth cell of the row, without a status image or with
\* one and its attributes
CelulasStatus ==
    {[NotaParada EXCEPT !.pc = "linha"]}
    \cup {[pc |-> "linha", img |-> TRUE, alt |-> a, src |-> s, class |-> c, valida |-> TRUE] :
             a \in Alts, s \in Srcs, c \in Classes}

\* lines 855-897: one call of verificar_nota_valida
VerificarNota ==
    /\ nota.pc = "linha"
    /\ nota' = [nota EXCEPT !.pc = "fim", !.valida = VerificarNotaValida(nota)]
    /\ UNCHANGED << fila_execucoes, execucoes_ativas, thread_executora, rodando,
                    lock, execs, chamadas, threads, abertos, diretas, limpezas,
                    consultas, download, pasta, captura, portais, modulo >>

\* verificar_nota_valida called on every status cell explored
InitValidade ==
    /\ InitServico
    /\ consultas = SemConsulta
    /\ download = DownloadParado
    /\ modulo = ModuloImportado
    /\ portais = "Portais"
    /\ captura = CapturaParada
    /\ pasta = PastaParada
    /\ nota \in CelulasStatus

SpecValidade == InitValidade /\ [][VerificarNota]_vars

\* -------------------------------------------------- sanitizar_nome_pasta
\* the characters of the company names explored: a letter, the underscore,
\* the hyphen, the blank and a punctuation mark
Alfabeto == {"a", "_", "-", " ", "."}

\* line 77: re.sub(r"[^\w\s\-]", "", nome); over Alfabeto \w matches "a"
\* and "_", and \s matches " "
RemoverProibidos(s) == SelectSeq(s, LAMBDA c : c \in {"a", "_", " ", "-"})

\* line 79: re.sub(r"\s+", " ", nome): every maximal run of blanks becomes
\* one blank
RECURSIVE ColapsarEspacos(_)
ColapsarEspacos(s) ==
    IF s = <<>> THEN <<>>
    ELSE IF Head(s) = " "
         THEN IF Len(s) >= 2 /\ s[2] = " "
              THEN ColapsarEspacos(Tail(s))
              ELSE << " " >> \o ColapsarEspacos(Tail(s))
         ELSE << Head(s) >> \o ColapsarEspacos(Tail(s))

\* lines 75-80 (download_manager.py 123-128): strip, then remove, then
\* collapse
SanitizarNomePasta(nome) == ColapsarEspacos(RemoverProibidos(Strip(nome)))

\* the name of the company is sanitized (line 203 / 507)
SanitizarUma ==
    /\ pasta.pc = "nome"
    /\ pasta' = [pasta EXCEPT !.pc = "uma", !.uma = SanitizarNomePasta(pasta.nome)]
    /\ UNCHANGED << fila_execucoes, execucoes_ativas, thread_executora, rodando,
                    lock, execs, chamadas, threads, abertos, diretas, limpezas,
                    consultas, download, nota, captura, portais, modulo >>

\* the sanitized name is sanitized again
SanitizarDuas ==
    /\ pasta.pc = "uma"
    /\ pasta' = [pasta EXCEPT !.pc = "duas", !.duas = SanitizarNomePasta(pasta.uma)]
    /\ UNCHANGED << fila_execucoes, execucoes_ativas, thread_executora, rodando,
                    lock, execs, chamadas, threads, abertos, diretas, limpezas,
                    consultas, download, nota, captura, portais, modulo >>

\* sanitizar_nome_pasta applied to every name explored
InitPasta ==
    /\ InitServico
    /\ consultas = SemConsulta
    /\ download = DownloadParado
    /\ modulo = ModuloImportado
    /\ portais = "Portais"
    /\ captura = CapturaParada
    /\ nota = NotaParada
    /\ pasta \in {[pc |-> "nome", nome |-> n, uma |-> <<>>, duas |-> <<>>] :
                     n \in UNION { [1..k -> Alfabeto] : k \in 0..MaxNome }}

SpecPasta == InitPasta /\ [][SanitizarUma \/ SanitizarDuas]_vars

\* ---------------------------------------------- baixar_arquivos_da_linha
\* What one artifact download may end with: the file saved, no link found
\* by any strategy (1038 / 1117), a response whose status is not 200
\* (baixar_arquivo_direto_sync 423-425), or a failure while writing
\* (baixar_arquivo_direto_sync 637-639).
ResultadosDownload == {"ok", "sem_link", "status_nao_200", "erro_escrita"}

\* lines 913-985: the base path, the period and the cells of the row; any
\* exception goes to the outer handler
CapturaPreparar ==
    /\ captura.pc = "inicio"
    /\ \E res \in {"ok", "erro"} :
         captura' = IF res = "ok"
                    THEN [captura EXCEPT !.pc = "menu"]
                    ELSE [captura EXCEPT !.pc = "except", !.erro = "preparar"]
    /\ UNCHANGED << fila_execucoes, execucoes_ativas, thread_executora, rodando,
                    lock, execs, chamadas, threads, abertos, diretas, limpezas,
                    consultas, download, nota, pasta, portais, modulo >>

\* lines 988-997: the click on the actions icon and the wait for the menu
CapturaAbrirMenu ==
    /\ captura.pc = "menu"
    /\ \E res \in {"ok", "erro"} :
         captura' = IF res = "ok"
                    THEN [captura EXCEPT !.pc = "xml"]
                    ELSE [captura EXCEPT !.pc = "except", !.erro = "menu"]
    /\ UNCHANGED << fila_execucoes, execucoes_ativas, thread_executora, rodando,
                    lock, execs, chamadas, threads, abertos, diretas, limpezas,
                    consultas, download, nota, pasta, portais, modulo >>

\* the same step with the inner try of the XML download removed: a failure
\* goes to the outer handler
CapturaBaixarXmlSemTry ==
    /\ captura.pc = "xml"
    /\ \E res \in ResultadosDownload :
         captura' = IF res = "ok"
                    THEN [captura EXCEPT !.pc = "pdf", !.xml = res]
                    ELSE [captura EXCEPT !.pc = "except", !.xml = res, !.erro = "xml"]
    /\ UNCHANGED << fila_execucoes, execucoes_ativas, thread_executora, rodando,
                    lock, execs, chamadas, threads, abertos, diretas, limpezas,
                    consultas, download, nota, pasta, portais, modulo >>

\* lines 1003-1078: the XML download inside its own try; every exception is
\* logged and the function goes on
CapturaBaixarXml ==
    /\ captura.pc = "xml"
    /\ \E res \in ResultadosDownload :
         captura' = [captura EXCEPT !.pc = "pdf", !.xml = res]
    /\ UNCHANGED << fila_execucoes, execucoes_ativas, thread_executora, rodando,
                    lock, execs, chamadas, threads, abertos, diretas, limpezas,
                    consultas, download, nota, pasta, portais, modulo >>

\* lines 1082-1157: the PDF download inside its own try
CapturaBaixarPdf ==
    /\ captura.pc = "pdf"
    /\ \E res \in ResultadosDownload :
         captura' = [captura EXCEPT !.pc = "fechar", !.pdf = res]
    /\ UNCHANGED << fila_execucoes, execucoes_ativas, thread_executora, rodando,
                    lock, execs, chamadas, threads, abertos, diretas, limpezas,
                    consultas, download, nota, pasta, portais, modulo >>

\* lines 1162-1181: the three attempts to close the menu, each in its own
\* try ("fechou": one of them worked, "falhou": all three raised)
CapturaFecharMenu ==
    /\ captura.pc = "fechar"
    /\ \E res \in {"fechou", "falhou"} :
         captura' = [captura EXCEPT !.pc = "espera", !.fechar = res]
    /\ UNCHANGED << fila_execucoes, execucoes_ativas, thread_executora, rodando,
                    lock, execs, chamadas, threads, abertos, diretas, limpezas,
                    consultas, download, nota, pasta, portais, modulo >>

\* lines 1184-1200: the check of the menu (in a try) and the final
\* page.wait_for_timeout(300), which is covered by the outer handler only
CapturaEsperar ==
    /\ captura.pc = "espera"
    /\ \E res \in {"ok", "erro"} :
         captura' = IF res = "ok"
                    THEN [captura EXCEPT !.pc = "retornou"]
                    ELSE [captura EXCEPT !.pc = "except", !.erro = "espera"]
    /\ UNCHANGED << fila_execucoes, execucoes_ativas, thread_executora, rodando,
                    lock, execs, chamadas, threads, abertos, diretas, limpezas,
                    consultas, download, nota, pasta, portais, modulo >>

\* lines 1202-1211: the outer handler logs, presses Escape inside a bare
\* try/except and returns
CapturaTratar ==
    /\ captura.pc = "except"
    /\ \E res \in {"fechou", "falhou"} :
         captura' = [captura EXCEPT !.pc = "retornou", !.fechar = res]
    /\ UNCHANGED << fila_execucoes, execucoes_ativas, thread_executora, rodando,
                    lock, execs, chamadas, threads, abertos, diretas, limpezas,
                    consultas, download, nota, pasta, portais, modulo >>

\* baixar_arquivos_da_linha called by the scanner of either direction
InitCaptura ==
    /\ InitServico
    /\ consultas = SemConsulta
    /\ download = DownloadParado
    /\ modulo = ModuloImportado
    /\ portais = "Portais"
    /\ nota = NotaParada
    /\ pasta = PastaParada
    /\ captura \in {[CapturaParada EXCEPT !.pc = "inicio", !.tipo = tp] : tp \in {"emitida", "recebida"}}

NextCaptura ==
    \/ CapturaPreparar
    \/ CapturaAbrirMenu
    \/ CapturaBaixarXml
    \/ CapturaBaixarPdf
    \/ CapturaFecharMenu
    \/ CapturaEsperar
    \/ CapturaTratar

SpecCaptura == InitCaptura /\ [][NextCaptura]_vars

\* ------------------------------------------------- get_execution_service
\* line 481: if _execution_service is None
TestarNone(r) ==
    /\ modulo.req[r].pc = "livre"
    /\ modulo' = [modulo EXCEPT
         !.req[r].pc = IF modulo.execution_service = 0 THEN "construir" ELSE "retornar"]
    /\ UNCHANGED << fila_execucoes, execucoes_ativas, thread_executora, rodando,
                    lock, execs, chamadas, threads, abertos, diretas, limpezas,
                    consultas, download, nota, pasta, captura, portais >>

\* line 482, right-hand side: ExecutionService() builds a new object with
\* its own queue, lock and map
ConstruirService(r) ==
    /\ modulo.req[r].pc = "construir"
    /\ modulo' = [modulo EXCEPT !.criadas = @ + 1,
                                !.req[r].nova = modulo.criadas + 1,
                                !.req[r].pc = "guardar"]
    /\ UNCHANGED << fila_execucoes, execucoes_ativas, thread_executora, rodando,
                    lock, execs, chamadas, threads, abertos, diretas, limpezas,
                    consultas, download, nota, pasta, captura, portais >>

\* line 482, the assignment to the global
GuardarService(r) ==
    /\ modulo.req[r].pc = "guardar"
    /\ modulo' = [modulo EXCEPT !.execution_service = modulo.req[r].nova,
                                !.req[r].pc = "retornar"]
    /\ UNCHANGED << fila_execucoes, execucoes_ativas, thread_executora, rodando,
                    lock, execs, chamadas, threads, abertos, diretas, limpezas,
                    consultas, download, nota, pasta, captura, portais >>

\* line 483: return _execution_service (the global is read again)
RetornarService(r) ==
    /\ modulo.req[r].pc = "retornar"
    /\ modulo' = [modulo EXCEPT !.req[r].obtida = modulo.execution_service,
                                !.req[r].pc = "fim"]
    /\ UNCHANGED << fila_execucoes, execucoes_ativas, thread_executora, rodando,
                    lock, execs, chamadas, threads, abertos, diretas, limpezas,
                    consultas, download, nota, pasta, captura, portais >>

\* The request threads calling get_execution_service, in any interleaving.
NextSingleton ==
    \/ \E r \in 1..MaxRequests : TestarNone(r)
    \/ \E r \in 1..MaxRequests : ConstruirService(r)
    \/ \E r \in 1..MaxRequests : GuardarService(r)
    \/ \E r \in 1..MaxRequests : RetornarService(r)

SpecSingleton == Init /\ [][NextSingleton]_vars

\* The engine under fair scheduling: a thread that can take a step
\* eventually takes it, and a call that holds the lock eventually returns.
Trabalhador(t) ==
    \/ ObterDaFila(t) \/ TimeoutDaFila(t) \/ TravarAposTimeout(t) \/ DecidirParada(t)
    \/ IniciarFluxo(t) \/ EtapaAutenticacao(t)
    \/ \E res \in ResultadosContexto : CriarContexto(t, res)
    \/ \E res \in ResultadosNavegacao : Navegar(t, res)
    \/ GuardarRecursos(t)
    \/ \E p \in 1..Len(Contas) : EtapaProcessamento(t, p)
    \/ \E res \in {"ok", "timeout"} : NavegarListagem(t, res)
    \/ \E res \in {"ok", "excecao"} : AguardarTabela(t, res)
    \/ ProcessarLinha(t) \/ FimDaPagina(t) \/ FimDaVarredura(t)
    \/ FinalizarEtapa(t) \/ FinalizarProgresso(t) \/ FinalizarStatus(t)
    \/ FinalizarDataFim(t) \/ FinalizarLog(t)
    \/ FalharStatus(t) \/ FalharErro(t) \/ FalharDataFim(t) \/ FalharLog(t)
    \/ LimparRecursos(t) \/ TaskDone(t)

Fairness ==
    /\ \A t \in Calls : WF_vars(Trabalhador(t))
    /\ \A k \in Calls : WF_vars(RegistrarEIniciar(k))

LiveSpec == Init /\ [][Next]_vars /\ Fairness

\* ------------------------------------------------------------- properties
Execs == 1..Len(execs)

\* the threads inside the loop of _processar_fila_isolada
NoLaco == {t \in Calls : threads[t].pc \notin {"nao_iniciada", "saiu"}}

\* the run a thread processes is done with: its status is final and the
\* failure or success path has run to the cleanup
Encerrada(t) == threads[t].pc \in {"limpar", "task_done"}

\* Who holds live browser handles: a run whose browser field is set to an
\* open browser, a run whose session abrir_dashboard_nfse is still building,
\* and a direct call inside abrir_dashboard_nfse.
Detentores ==
    {<<"run", r>> : r \in {r \in Execs : execs[r].browser # 0 /\ execs[r].browser \in abertos}}
    \cup {<<"run", threads[t].exec>> : t \in {t \in Calls : threads[t].sess # 0 /\ threads[t].sess \in abertos}}
    \cup {<<"direta", d>> : d \in {d \in Diretas : diretas[d].sess # 0 /\ diretas[d].sess \in abertos}}

\* C1: at most one run or caller holds live, non-null browser handles at any
\* instant, whatever the interleaving of enqueue calls, worker steps and
\* direct session openings, also after a run finished in interactive mode.
C1_SingleFlight == Cardinality(Detentores) <= 1

\* C2: at most one worker thread is inside the dequeue/process loop.
C2_UmTrabalhador == Cardinality(NoLaco) <= 1

\* C2 witness: a call holds the lock with its run already in the queue while
\* the worker, whose get timed out, waits for the lock to decide to stop.
C2_Witness ==
    \E k \in Calls, t \in Calls :
        chamadas[k].pc = "enfileirada" /\ threads[t].pc = "timeout"

\* C3: runs start in the order of their enqueue: a run that was created
\* later is still pendente until every earlier run has a final status.
C3_Fifo ==
    \A a \in Execs, b \in Execs :
        a < b /\ execs[b].status # "pendente" => execs[a].status \in Terminal

\* C3 witness: the second run is running after the first one ended.
C3_Witness ==
    \E a \in Execs, b \in Execs :
        a < b /\ execs[b].status = "em_execucao" /\ execs[a].status \in Terminal

\* C4: under fair scheduling every run accepted by adicionar_execucao
\* eventually has status concluido or falhou.
C4_TodaExecucaoTermina ==
    \A r \in Calls :
        (r \in Execs) ~> (r \in Execs /\ execs[r].status \in Terminal)

Ordem(st) ==
    CASE st = "pendente" -> 0
      [] st = "em_execucao" -> 1
      [] st \in Terminal -> 2
      [] OTHER -> 3

\* C5: the status of a run only moves forward, pendente -> em_execucao ->
\* concluido | falhou; a final status is never left and cancelado is never
\* reached.
C5_StatusAvanca ==
    [][\A r \in Execs :
          /\ Ordem(execs'[r].status) >= Ordem(execs[r].status)
          /\ execs[r].status \in Terminal => execs'[r].status = execs[r].status
          /\ execs'[r].status # "cancelado"]_vars

\* C5 witness: one run ended concluido and another one failed.
C5_Witness ==
    \E a \in Execs, b \in Execs :
        execs[a].status = "concluido" /\ execs[b].status = "falhou"

AuthFalhou(t) ==
    threads[t].auth \in {"cert_ausente", "erro_contexto", "erro_navegacao", "sem_dashboard"}

SemCapturas(t) == threads[t].capturas = [emitidas |-> 0, recebidas |-> 0]

\* C6: when the certificate is not found, or the authentication fails in
\* another way, the stage stays autenticacao, no row is ever captured, and
\* the run ends falhou with erro set.
C6_FalhaDeAutenticacao ==
    \A t \in Calls :
        AuthFalhou(t) =>
            /\ execs[threads[t].exec].etapa_atual = "autenticacao"
            /\ SemCapturas(t) /\ threads[t].varreu = {}
            /\ execs[threads[t].exec].status # "concluido"
            /\ Encerrada(t) =>
                 /\ execs[threads[t].exec].status = "falhou"
                 /\ execs[threads[t].exec].erro # "None"

\* C6 witness: a run whose certificate was not found has been dealt with.
C6_Witness ==
    \E t \in Calls :
        /\ threads[t].auth = "cert_ausente"
        /\ threads[t].pc = "task_done"
        /\ execs[threads[t].exec].status = "falhou"

\* C7: when abrir_dashboard_nfse returned success, the page it returned is
\* open when the orchestrator enters the scanner, in headless mode too.
C7_PaginaAbertaNoScanner ==
    \A t \in Calls :
        threads[t].pc = "nav" => execs[threads[t].exec].page \in abertos

\* C8: a run of tipo ambas in headless mode, authenticated, whose portal
\* lists two issued notes of the period (one valid, one cancelled) and no
\* received note ends concluido with exactly one issued capture, no
\* received capture, and a log entry about the skipped cancelled note.
C8_Cenario ==
    \A t \in Calls :
        /\ Encerrada(t)
        /\ execs[threads[t].exec].tipo = "ambas"
        /\ execs[threads[t].exec].headless
        /\ threads[t].auth = "sucesso"
        /\ threads[t].portal = 1
        => /\ execs[threads[t].exec].status = "concluido"
           /\ threads[t].capturas = [emitidas |-> 1, recebidas |-> 0]
           /\ \E i \in 1..Len(execs[threads[t].exec].logs) :
                 execs[threads[t].exec].logs[i] = "nota_cancelada_pulada"

DirecoesDoTipo(tipo) ==
    CASE tipo = "ambas" -> {"emitidas", "recebidas"}
      [] tipo = "emitidas" -> {"emitidas"}
      [] tipo = "recebidas" -> {"recebidas"}
      [] OTHER -> {}

EmProcessamento(r) == \E t \in Calls : threads[t].exec = r

\* C10: _limpar_recursos runs exactly once for every run the worker
\* dequeues, whether it ends concluido or falhou, and before the worker is
\* back at the queue: never twice, not before the run has a final status,
\* and once for every run the worker has let go.
C10_LimpezaUmaVez ==
    \A r \in Execs :
        /\ limpezas[r] <= 1
        /\ limpezas[r] = 1 => execs[r].status \in Terminal
        /\ execs[r].status # "pendente" /\ ~EmProcessamento(r) => limpezas[r] = 1
        /\ \A t \in Calls :
              threads[t].exec = r /\ threads[t].pc = "task_done" => limpezas[r] = 1

\* C10 witness: a failed run was cleaned up and the worker took the next one.
C10_Witness ==
    \E r \in Execs, t \in Calls :
        /\ execs[r].status = "falhou" /\ limpezas[r] = 1
        /\ threads[t].pc = "inicio" /\ threads[t].exec # r

\* the transient handles of a run that are set
Handles(e) == {e.page, e.context, e.browser, e.playwright} \ {0}

\* C11: the handles of a run are set only while it is em_execucao: they are
\* unset while it is pendente and unset again once _limpar_recursos has run
\* for it, whatever the outcome.
C11_HandlesSoEmExecucao ==
    \A r \in Execs :
        Handles(execs[r]) # {} =>
            /\ execs[r].status = "em_execucao" \/ limpezas[r] = 0
            /\ execs[r].status # "pendente"

\* the fields of a run that getStatus shows or the flow writes
Campos(e) ==
    << e.status, e.etapa_atual, e.progresso, e.logs, e.mensagem, e.data_fim, e.erro >>

\* C12: once the status of a run is concluido or falhou, no step changes its
\* logs, mensagem, data_fim, erro, etapa_atual or progresso.
C12_ImutavelAposTerminal ==
    [][\A r \in Execs :
          execs[r].status \in Terminal => Campos(execs'[r]) = Campos(execs[r])]_vars

\* C13: progresso is an integer of 0..100 and never decreases, on the
\* success path and on every failure path.
C13_ProgressoMonotono ==
    [][\A r \in 1..Len(execs') :
          /\ execs'[r].progresso \in 0..100
          /\ r <= Len(execs) => execs'[r].progresso >= execs[r].progresso]_vars

\* C13 witness: a run failed while the notes were processed, at progresso 40,
\* and another one ended concluido at progresso 100.
C13_Witness ==
    \E a \in Execs, b \in Execs :
        /\ execs[a].status = "falhou" /\ execs[a].progresso = 40
        /\ execs[b].status = "concluido" /\ execs[b].progresso = 100

\* the order of the stages of a run
OrdemEtapa(et) ==
    CASE et = "inicio" -> 0
      [] et = "autenticacao" -> 1
      [] et = "processamento_emitidas" -> 2
      [] et = "processamento_recebidas" -> 3
      [] et = "finalizacao" -> 4

\* C14: between two successive answers of obter_status for the same
\* empresa_id the stage never moves backward and progresso never decreases,
\* whatever worker steps and calls of adicionar_execucao happen in between.
C14_ConsultaMonotona ==
    [][consultas'.empresa_id = consultas.empresa_id /\ consultas.achou /\ consultas'.achou
       => /\ OrdemEtapa(consultas'.etapa_atual) >= OrdemEtapa(consultas.etapa_atual)
          /\ consultas'.progresso >= consultas.progresso]_vars

\* the thread is inside processar_tabela_*, scanning the listing of direction d
Varrendo(t, d) ==
    threads[t].dir = d /\ threads[t].pc \in {"pagina", "linha", "fim_pagina"}

\* C15: in a run of tipo ambas the stage is processamento_recebidas while
\* the received listing is scanned (after autenticacao and
\* processamento_emitidas, before finalizacao).
C15_EtapaRecebidas ==
    \A t \in Calls :
        Varrendo(t, "recebidas") /\ execs[threads[t].exec].tipo = "ambas"
        => execs[threads[t].exec].etapa_atual = "processamento_recebidas"

\* C16: within a run the issued scan has ended before the received scan
\* begins, no issued row is captured once the received listing was entered,
\* a capture is made only for the row at hand in the direction at hand, rows
\* are taken one after the other in table order and pages never go back.
C16_Ordem ==
    [][\A t \in Calls :
          /\ threads'[t] # threads[t]
          /\ threads'[t].exec = threads[t].exec /\ threads[t].exec # 0
          => /\ threads[t].dir = "emitidas" /\ threads'[t].dir = "recebidas"
                => threads[t].pc = "fim_varredura"
             /\ threads[t].dir = "recebidas" => threads'[t].dir # "emitidas"
             /\ "recebidas" \in threads[t].varreu
                => threads'[t].capturas.emitidas = threads[t].capturas.emitidas
             /\ threads'[t].capturas # threads[t].capturas
                => /\ threads[t].pc = "linha"
                   /\ \A d \in {"emitidas", "recebidas"} \ {threads[t].dir} :
                         threads'[t].capturas[d] = threads[t].capturas[d]
             /\ threads[t].pc = "linha" /\ threads'[t].pc = "linha"
                => /\ threads'[t].linha = threads[t].linha + 1
                   /\ threads'[t].pagina = threads[t].pagina
             /\ threads[t].pc = "pagina" /\ threads'[t].pc = "linha"
                => threads'[t].linha = 1
             /\ threads[t].pc = "linha" /\ threads'[t].pc = "fim_pagina"
                => threads[t].linha = Len(LinhasDaPagina(t))
             /\ threads'[t].dir = threads[t].dir /\ threads[t].pagina > 0
                  /\ threads'[t].pagina > 0
                => threads'[t].pagina \in {threads[t].pagina, threads[t].pagina + 1}]_vars

\* C16 witness: the received listing is being scanned, and rows of both
\* directions were captured, on a second page too.
C16_Witness ==
    \E t \in Calls :
        /\ threads[t].dir = "recebidas"
        /\ threads[t].capturas.emitidas > 0
        /\ threads[t].capturas.recebidas > 0

\* the logs of the run hold the message
TemLog(e, msg) == \E i \in 1..Len(e.logs) : e.logs[i] = msg

\* the listing holds a note of the target period that verificar_nota_valida
\* refuses
TemCancelada(lst, alvo) ==
    \E p \in 1..Len(lst.paginas) : \E i \in 1..Len(lst.paginas[p]) :
        /\ lst.paginas[p][i].comp # <<>>
        /\ Strip(lst.paginas[p][i].comp) = alvo
        /\ ~VerificarNotaValida(lst.paginas[p][i])

\* C17: a recoverable error is appended to the logs of the run, which
\* obter_status shows, and leaves its status alone: once processar_tabela_*
\* caught a table timeout the logs tell so, and once the scan of a listing
\* with a cancelled note of the period ended the logs tell of the skipped
\* note; the run is em_execucao until the flow ends.
C17_ErrosRecuperaveisNosLogs ==
    \A t \in Calls :
        /\ threads[t].exc_tabela # {}
           => /\ TemLog(execs[threads[t].exec], "timeout_tabela")
              /\ Varrendo(t, threads[t].dir) => execs[threads[t].exec].status = "em_execucao"
        /\ /\ threads[t].pc = "fim_varredura"
           /\ threads[t].dir \notin threads[t].exc_tabela
           /\ TemCancelada(ListagemDe(t, threads[t].dir), threads[t].competencia_formatada)
           => /\ TemLog(execs[threads[t].exec], "nota_cancelada_pulada")
              /\ execs[threads[t].exec].status = "em_execucao"

\* C18: adicionar_execucao raises ValueError whenever empresa_id, cnpj or
\* competencia is empty: no run is ever created from such a request, and the
\* call that is rejected leaves the queue, the status map, rodando, the
\* worker threads, the lock and the runs as they were.
C18_EnfileirarValida ==
    [][/\ \A r \in 1..Len(execs') :
             /\ execs'[r].empresa_id # ""
             /\ r > Len(execs) => \E ped \in Pedidos :
                   ~PedidoInvalido(ped) /\ execs'[r] = ExecucaoInfo(Normalizar(ped))
       /\ \A k \in Calls :
             chamadas[k].pc = "livre" /\ chamadas'[k].pc = "rejeitada"
             => UNCHANGED << fila_execucoes, execucoes_ativas, rodando,
                             thread_executora, threads, lock, execs >>]_vars

\* C18 witness: a call was rejected while a run waits in the queue and the
\* worker is running.
C18_Witness ==
    \E k \in Calls :
        chamadas[k].pc = "rejeitada" /\ rodando /\ fila_execucoes # <<>>

ValorDigito(c) ==
    CASE c = "0" -> 0 [] c = "1" -> 1 [] c = "2" -> 2 [] c = "3" -> 3
      [] c = "4" -> 4 [] c = "5" -> 5 [] c = "6" -> 6 [] c = "7" -> 7
      [] c = "8" -> 8 [] c = "9" -> 9

\* the month count of a period written MM/AAAA
Periodo(comp) ==
    12 * (1000 * ValorDigito(comp[4]) + 100 * ValorDigito(comp[5])
          + 10 * ValorDigito(comp[6]) + ValorDigito(comp[7]))
    + 10 * ValorDigito(comp[1]) + ValorDigito(comp[2])

\* the rows of a listing, page after page
RECURSIVE Achatar(_)
Achatar(paginas) ==
    IF paginas = <<>> THEN <<>> ELSE Head(paginas) \o Achatar(Tail(paginas))

\* every row shows a period and the periods are in descending order
Ordenada(lst) ==
    LET linhas == Achatar(lst.paginas)
    IN /\ \A i \in 1..Len(linhas) : Len(linhas[i].comp) = 7
       /\ \A i \in 1..Len(linhas), j \in 1..Len(linhas) :
             i < j => Periodo(linhas[i].comp) >= Periodo(linhas[j].comp)

\* the valid notes of the target period in the whole listing
AlvosValidos(lst, alvo) ==
    LET linhas == Achatar(lst.paginas)
    IN Cardinality({i \in 1..Len(linhas) :
                       linhas[i].comp = alvo /\ VerificarNotaValida(linhas[i])})

\* C19: when the scan of a listing sorted by descending period ends without
\* an exception, baixar_arquivos_da_linha was called once for every valid
\* note of the target period in the listing, on whatever page the period
\* begins.
C19_ContagemDoScanner ==
    \A t \in Calls :
        /\ threads[t].pc = "fim_varredura"
        /\ threads[t].dir \notin threads[t].exc_tabela
        /\ Ordenada(ListagemDe(t, threads[t].dir))
        => threads[t].capturas[threads[t].dir]
             = AlvosValidos(ListagemDe(t, threads[t].dir), threads[t].competencia_formatada)

\* C19 witness: the scan of a listing of two pages that begins with the
\* target period ended with every valid note captured.
C19_Witness ==
    \E t \in Calls :
        /\ threads[t].pc = "fim_varredura"
        /\ threads[t].dir = "emitidas"
        /\ threads[t].pagina = 2
        /\ threads[t].capturas.emitidas = 3

\* C20: in the direct download a body that begins with %PDF gets the
\* extension .pdf and a body that begins with <?xml gets .xml, whatever the
\* content-type header says.
C20_ExtensaoPeloConteudo ==
    download.pc = "fim" =>
        /\ ComecaCom(download.content, <<"%","P","D","F">>) => download.extensao = ".pdf"
        /\ ComecaCom(download.content, <<"<","?","x","m","l">>) => download.extensao = ".xml"

\* C20 witness: a PDF body under the header application/octet-stream got
\* the extension .pdf.
C20_Witness ==
    /\ download.pc = "fim"
    /\ download.content = ConteudoPdf
    /\ download.content_type = Lower(CtOctetStream)
    /\ download.extensao = ".pdf"

\* C21: a row is classified invalid exactly when it has a status image and
\* the alt, the src or the class of that image contains a negative keyword.
C21_ValidadeDaLinha ==
    LET negativa == \/ \E w \in PalavrasAlt : Contem(Lower(nota.alt), w)
                    \/ \E w \in PalavrasSrc : Contem(Lower(nota.src), w)
                    \/ \E w \in PalavrasAlt : Contem(Lower(nota.class), w)
    IN nota.pc = "fim" => (nota.valida <=> ~(nota.img /\ negativa))

\* C21 witness: an image with alt="Cancelada" was classified invalid, and
\* the classification of rows without image, or with alt="Emitida" and no
\* keyword elsewhere, is valid.
C21_Witness ==
    /\ nota.pc = "fim"
    /\ nota.img /\ nota.alt = AltCancelada /\ nota.class = <<>>
    /\ ~nota.valida

\* C22: sanitizar_nome_pasta is idempotent: sanitizing a sanitized company
\* name gives the same name.
C22_SanitizarIdempotente ==
    pasta.pc = "duas" => pasta.duas = pasta.uma

\* C22 witness: a name with punctuation and repeated blanks was sanitized
\* twice with the same result.
C22_Witness ==
    /\ pasta.pc = "duas"
    /\ pasta.nome = <<"a", ".", " ">>
    /\ pasta.uma = <<"a">>
    /\ pasta.duas = pasta.uma

\* C23: baixar_arquivos_da_linha never ends by propagating an exception: it
\* returns; when it has returned an attempt to close the menu was made, and
\* a failed XML download did not keep the PDF download from being tried.
C23_CapturaNuncaLevanta ==
    /\ captura.pc \in {"parado", "inicio", "menu", "xml", "pdf", "fechar", "espera",
                       "except", "retornou"}
    /\ captura.pc = "except" => ENABLED CapturaTratar
    /\ captura.pc = "retornou" =>
         /\ captura.fechar # "nao"
         /\ captura.xml \notin {"nao", "ok"} => captura.pdf # "nao"

\* C23 witness: the XML request was answered with a status other than 200,
\* the PDF was saved, and the call returned after trying to close the menu.
C23_Witness ==
    /\ captura.pc = "retornou"
    /\ captura.xml = "status_nao_200"
    /\ captura.pdf = "ok"
    /\ captura.fechar # "nao"

\* C24 (as stated): after a page that has rows of the target period and
\* rows of another period the scanner never goes to the next page, wherever
\* the rows of the target period stand on it.
C24_Original ==
    [][\A t \in Calls :
          LET alvo == threads[t].competencia_formatada
              linhas == LinhasDaPagina(t)
              mista == /\ \E i \in 1..Len(linhas) :
                             linhas[i].comp # <<>> /\ Strip(linhas[i].comp) = alvo
                       /\ \E i \in 1..Len(linhas) :
                             linhas[i].comp # <<>> /\ Strip(linhas[i].comp) # alvo
          IN (threads[t].pc = "fim_pagina" /\ threads'[t] # threads[t] /\ mista)
             => threads'[t].pc = "fim_varredura"]_vars

\* C24 (amended): after a page the scanner goes to the next page exactly
\* when the last row of the page is of the target period and the "next
\* page" control can be clicked (a later page exists, or the control of
\* the last page is enabled); so a mixed page ends the scan only when its
\* last row is of another period.
C24_DecisaoPelaUltimaLinha ==
    [][\A t \in Calls :
          LET lst == ListagemDe(t, threads[t].dir)
              ultima == LinhasDaPagina(t)[Len(LinhasDaPagina(t))]
              ultima_do_alvo == /\ ultima.comp # <<>>
                                /\ Strip(ultima.comp) = threads[t].competencia_formatada
              clicavel == \/ threads[t].pagina < Len(lst.paginas)
                          \/ lst.prox = "habilitado"
          IN (threads[t].pc = "fim_pagina" /\ threads'[t] # threads[t])
             => /\ threads'[t].pc \in {"pagina", "fim_varredura"}
                /\ threads'[t].pc = "pagina" <=> (ultima_do_alvo /\ clicavel)
                /\ threads'[t].pc = "pagina" /\ threads[t].pagina < Len(lst.paginas)
                     => threads'[t].pagina = threads[t].pagina + 1]_vars

\* C24 witness: the scan of a listing whose first page is mixed and ends
\* with the target period went on to the second page, and stopped there
\* because the last row of that page is of an older period.
C24_Witness ==
    \E t \in Calls :
        /\ threads[t].pc = "fim_varredura"
        /\ ListagemDe(t, threads[t].dir) = ListagemMista
        /\ threads[t].pagina = 2
        /\ threads[t].capturas[threads[t].dir] = 2

\* C25: a row that fails (its period cell cannot be read, or it is
\* captured and its artifacts cannot be fetched) is never fatal to the scan:
\* after it the scanner processes the next row of the same page, or, when
\* it was the last row, takes the pagination decision of the page.
C25_FalhaDaLinhaNaoEncerra ==
    [][\A t \in Calls :
          LET linha == LinhasDaPagina(t)[threads[t].linha]
              falha == \/ linha.comp = <<>>
                       \/ /\ Strip(linha.comp) = threads[t].competencia_formatada
                          /\ VerificarNotaValida(linha)
                          /\ ~linha.menu
          IN (threads[t].pc = "linha" /\ threads'[t] # threads[t] /\ falha)
             => /\ threads'[t].pagina = threads[t].pagina
                /\ threads'[t].dir = threads[t].dir
                /\ IF threads[t].linha < Len(LinhasDaPagina(t))
                   THEN /\ threads'[t].pc = "linha"
                        /\ threads'[t].linha = threads[t].linha + 1
                   ELSE threads'[t].pc = "fim_pagina"]_vars

\* C25 witness: on a page whose first row could not be read and whose second
\* row could not be captured, the third row was captured and the page was
\* scanned to its end.
C25_Witness ==
    \E t \in Calls :
        /\ threads[t].pc = "fim_pagina"
        /\ ListagemDe(t, threads[t].dir) = ListagemIlegivel
        /\ threads[t].linha = 3
        /\ threads[t].falhas = 1
        /\ threads[t].capturas[threads[t].dir] = 2

\* C26: the scan of a direction never processes the same page twice: every
\* navigation at the end of a page displays a later page.
C26_NuncaRepetePagina ==
    [][\A t \in Calls :
          (threads[t].pc = "fim_pagina" /\ threads'[t].pc = "pagina")
          => threads'[t].pagina > threads[t].pagina]_vars

\* C26 witness: the only row of a last page whose "next page" control is
\* enabled has been captured twice.
C26_Witness ==
    \E t \in Calls :
        /\ threads[t].pc = "fim_pagina"
        /\ ListagemDe(t, threads[t].dir) = ListagemPresa
        /\ threads[t].pagina = 1
        /\ threads[t].capturas[threads[t].dir] = 2

\* C27: every answer of obter_status is consistent: status concluido comes
\* with progresso 100, the stage finalizacao and data_fim set; status falhou
\* comes with erro and data_fim set.
C27_ConsultaConsistente ==
    consultas.achou =>
        /\ consultas.status = "concluido" =>
             /\ consultas.progresso = 100
             /\ consultas.etapa_atual = "finalizacao"
             /\ consultas.data_fim
        /\ consultas.status = "falhou" =>
             /\ consultas.erro # "None"
             /\ consultas.data_fim

\* C27 witness: a poll answered with a complete final snapshot of a run
\* that ended concluido.
C27_Witness ==
    /\ consultas.achou
    /\ consultas.status = "concluido"
    /\ consultas.progresso = 100
    /\ consultas.etapa_atual = "finalizacao"
    /\ consultas.data_fim

\* C28: all callers of get_execution_service obtain the same instance and
\* the process never holds more than one ExecutionService.
C28_Singleton ==
    /\ modulo.criadas <= 1
    /\ \A r, s \in 1..MaxRequests :
          modulo.req[r].pc = "fim" /\ modulo.req[s].pc = "fim"
          => modulo.req[r].obtida = modulo.req[s].obtida

\* C28 witness: every request thread has returned, one after the other, and
\* all hold the only instance constructed.
C28_Witness ==
    /\ modulo.criadas = 1
    /\ \A r \in 1..MaxRequests : modulo.req[r].pc = "fim" /\ modulo.req[r].obtida = 1

\* C29: when the session building of a run failed after its browser was
\* launched (the context could not be created, the navigation raised, or
\* the result said "sucesso": False), that browser is closed by the time
\* the worker is done with the run and turns to the queue again.
C29_SemBrowserAbertoAposFalha ==
    \A t \in Calls :
        /\ threads[t].pc = "task_done"
        /\ threads[t].auth \in {"erro_contexto", "erro_navegacao", "sem_dashboard"}
        => BrowserDe(threads[t].exec) \notin abertos

\* C29 witness: a headless run whose navigation raised has been dealt with
\* and its browser is closed.
C29_Witness ==
    \E t \in Calls :
        /\ threads[t].pc = "task_done"
        /\ threads[t].auth = "erro_navegacao"
        /\ HeadlessDe(execs[threads[t].exec])
        /\ BrowserDe(threads[t].exec) \notin abertos

\* C30: a run whose status is concluido has had the table scanner invoked
\* for at least one direction, whatever tipo adicionar_execucao accepted.
C30_ConcluidoVarreu ==
    \A t \in Calls :
        /\ threads[t].exec # 0
        /\ execs[threads[t].exec].status = "concluido"
        => threads[t].varreu # {}

\* C30 witness: a run of tipo recebidas ended concluido after the scanner of
\* the received listing was invoked.
C30_Witness ==
    \E t \in Calls :
        /\ threads[t].exec # 0
        /\ execs[threads[t].exec].tipo = "recebidas"
        /\ execs[threads[t].exec].status = "concluido"
        /\ threads[t].varreu = {"recebidas"}

====
